---------------------------- MODULE Spec2Model ----------------------------
(***************************************************************************)
(* A model of the WVG decoder (Acurisu/WVG): the MSB-first bit reader of   *)
(* src/src/bitstream.rs and the recursive-descent parser of                *)
(* src/src/parser.rs.                                                      *)
(*                                                                         *)
(* Two specifications share the variables:                                 *)
(*   BitSpec : a client calls the public BitStream operations in any order *)
(*             on a bounded buffer;                                        *)
(*   Spec    : WvgParser::parse runs over an input buffer, one grammar     *)
(*             section per step.                                           *)
(*                                                                         *)
(* Every Rust function is an operator over a "thread" record p that holds  *)
(* the BitStream cursor, the parser's fields, the pending error (the `?`   *)
(* operator: once p.err is not "Ok" every later operation returns p        *)
(* unchanged) and the value last returned (p.val).                         *)
(***************************************************************************)
EXTENDS Integers, Sequences, FiniteSets, TLC

VARIABLES
    data,             \* BitStream.data: the byte buffer, a sequence of 0..255
    overflow_checks,  \* build profile: TRUE = arithmetic overflow panics (debug),
                      \* FALSE = it wraps (release)
    bs,               \* BitStream cursor: [byte_pos, bit_pos]
    ret,              \* BitSpec: the last BitStream call and what it returned
    streak,           \* BitSpec: the current run of successful read_bit calls
    parser,           \* WvgParser fields
    pc,               \* Spec: position in WvgParser::parse
    header,           \* Spec: the header sections decoded so far
    remaining,        \* Spec: iterations left in parse_elements' loop
    last,             \* Spec: what the latest parse_element call did
    past_end,         \* Spec: read_bit calls issued with no bit left
    bits_read,        \* Spec: read_bit calls that returned a bit
    result,           \* Spec: what parse returned
    first,            \* TwiceSpec: what the first of two decodes returned
    svg               \* SvgSpec: the SvgContext of a conversion

vars == <<data, overflow_checks, bs, ret, streak, parser, pc, header,
          remaining, last, past_end, bits_read, result, first, svg>>

-----------------------------------------------------------------------------
(* Bounds of the model                                                     *)

\* BitSpec: every buffer of 0..MaxBytes bytes drawn from ByteVals is tried
MaxBytes == 2
ByteVals == {0, 170, 255}
\* BitSpec: the buffers of the unit tests of bitstream.rs
TestBuffers == {<<170>>, <<240, 15>>, <<127>>, <<255>>, <<224>>, <<240, 240>>}
\* BitSpec: buffers long enough for reads of 31 and 32 bits
WideBuffers ==
    {<<255, 255, 255, 255>>, <<128, 0, 0, 0>>, <<127, 255, 255, 255>>,
     <<170, 170, 170, 170, 170>>, <<85, 0, 255, 170, 1>>}
\* BitSpec: the widths n a client passes to read_bits / read_signed_bits
Widths == {0, 1, 3, 13, 31, 32}

-----------------------------------------------------------------------------
(* Rust values                                                             *)

None == <<>>
Some(x) == <<x>>
IsSome(o) == o # <<>>
Unwrap(o) == o[1]
UnwrapOr(o, d) == IF o = <<>> THEN d ELSE o[1]

\* i32::MAX and i32::MIN
MaxI32 == 2147483647
MinI32 == (-2147483647) - 1

\* A u32 is kept as two 16-bit halves: value = hi * 65536 + lo.
U32(hi, lo) == [hi |-> hi, lo |-> lo]
U32Zero == U32(0, 0)

\* (val << 1) | bit on u32: the bit shifted out of the top is dropped
Shl1Or(v, bit) ==
    U32((v.hi * 2 + v.lo \div 32768) % 65536, (v.lo * 2 + bit) % 65536)

\* bit k (0 = least significant) of a u32
U32Bit(v, k) ==
    IF k < 16 THEN (v.lo \div (2 ^ k)) % 2 ELSE (v.hi \div (2 ^ (k - 16))) % 2

\* `v as i32`: the same 32 bits read as two's complement
AsI32(v) ==
    IF v.hi >= 32768 THEN (v.hi - 65536) * 65536 + v.lo ELSE v.hi * 65536 + v.lo

\* `v as usize`, `v as u16`, `v as u8`
AsUsize(v) == v.hi * 65536 + v.lo
AsU16(v) == v.lo
AsU8(v) == v.lo % 256

\* a - b on i32: [ovf |-> the mathematical result is outside i32,
\*                val |-> the result wrapped to 32 bits]
SubI32(a, b) ==
    IF b < 0 /\ a > MaxI32 + b
    THEN [ovf |-> TRUE, val |-> ((a - MaxI32) - 1) + ((-(b + 1)) - MaxI32)]
    ELSE IF b > 0 /\ a < MinI32 + b
    THEN [ovf |-> TRUE, val |-> ((a + MaxI32) + 1) + (MaxI32 - (b - 1))]
    ELSE [ovf |-> FALSE, val |-> a - b]

\* 1i32 << k for k in 0..31
Shl1I32(k) == IF k = 31 THEN MinI32 ELSE 2 ^ k

-----------------------------------------------------------------------------
(* Document values (src/src/types.rs)                                      *)

\* Color::new, Color::BLACK, Color::WHITE
Color(r, g, b) == [r |-> r, g |-> g, b |-> b]
BLACK == Color(0, 0, 0)
WHITE == Color(255, 255, 255)

\* GeneralInfo::default()
GeneralInfoDefault ==
    [version |-> 0, text_code_mode |-> None, author |-> None, title |-> None,
     timestamp |-> None]

\* AttributeMasks::default()
AttributeMasksDefault ==
    [line_type |-> FALSE, line_width |-> FALSE, line_color |-> FALSE, fill |-> FALSE]

\* GenericParams::default()
GenericParamsDefault ==
    [angle_resolution |-> 3, angle_in_bits |-> 2, scale_resolution |-> 0,
     scale_in_bits |-> 2, index_in_bits |-> 2, curve_offset_in_bits |-> None]

\* ElementAttributes::default()
ElementAttributesDefault ==
    [line_type |-> None, line_width |-> None, line_color |-> None, fill |-> None,
     fill_color |-> None]

\* Transform::default()
TransformDefault ==
    [translate_x |-> None, translate_y |-> None, angle |-> None, scale_x |-> None,
     scale_y |-> None, cx |-> None, cy |-> None]

\* impl From<u32> for LineType
LineTypeFrom(value) ==
    CASE value = 0 -> "Solid"
      [] value = 1 -> "Dashed"
      [] value = 2 -> "Dotted"
      [] value = 3 -> "DashDot"
      [] OTHER -> "Solid"

\* impl From<u32> for LineWidth
LineWidthFrom(value) ==
    CASE value = 0 -> "None"
      [] value = 1 -> "Fine"
      [] value = 2 -> "Normal"
      [] value = 3 -> "Thick"
      [] OTHER -> "Fine"

\* the table of websafe_color
WEBSAFE_PALETTE ==
    <<
     <<255, 255, 255>>, <<255, 204, 255>>, <<255, 153, 255>>, <<255, 102, 255>>, <<255, 51, 255>>, <<255, 0, 255>>, <<255, 255, 204>>, <<255, 204, 204>>,
     <<255, 153, 204>>, <<255, 102, 204>>, <<255, 51, 204>>, <<255, 0, 204>>, <<255, 255, 153>>, <<255, 204, 153>>, <<255, 153, 153>>, <<255, 102, 153>>,
     <<255, 51, 153>>, <<255, 0, 153>>, <<204, 255, 255>>, <<204, 204, 255>>, <<204, 153, 255>>, <<204, 102, 255>>, <<204, 51, 255>>, <<204, 0, 255>>,
     <<204, 255, 204>>, <<204, 204, 204>>, <<204, 153, 204>>, <<204, 102, 204>>, <<204, 51, 204>>, <<204, 0, 204>>, <<204, 255, 153>>, <<204, 204, 153>>,
     <<204, 153, 153>>, <<204, 102, 153>>, <<204, 51, 153>>, <<204, 0, 153>>, <<153, 255, 255>>, <<153, 204, 255>>, <<153, 153, 255>>, <<153, 102, 255>>,
     <<153, 51, 255>>, <<153, 0, 255>>, <<153, 255, 204>>, <<153, 204, 204>>, <<153, 153, 204>>, <<153, 102, 204>>, <<153, 51, 204>>, <<153, 0, 204>>,
     <<153, 255, 153>>, <<153, 204, 153>>, <<153, 153, 153>>, <<153, 102, 153>>, <<153, 51, 153>>, <<153, 0, 153>>, <<102, 255, 255>>, <<102, 204, 255>>,
     <<102, 153, 255>>, <<102, 102, 255>>, <<102, 51, 255>>, <<102, 0, 255>>, <<102, 255, 204>>, <<102, 204, 204>>, <<102, 153, 204>>, <<102, 102, 204>>,
     <<102, 51, 204>>, <<102, 0, 204>>, <<102, 255, 153>>, <<102, 204, 153>>, <<102, 153, 153>>, <<102, 102, 153>>, <<102, 51, 153>>, <<102, 0, 153>>,
     <<51, 255, 255>>, <<51, 204, 255>>, <<51, 153, 255>>, <<51, 102, 255>>, <<51, 51, 255>>, <<51, 0, 255>>, <<51, 255, 204>>, <<51, 204, 204>>,
     <<51, 153, 204>>, <<51, 102, 204>>, <<51, 51, 204>>, <<51, 0, 204>>, <<51, 255, 153>>, <<51, 204, 153>>, <<51, 153, 153>>, <<51, 102, 153>>,
     <<51, 51, 153>>, <<51, 0, 153>>, <<0, 255, 255>>, <<0, 204, 255>>, <<0, 153, 255>>, <<0, 102, 255>>, <<0, 51, 255>>, <<0, 0, 255>>,
     <<0, 255, 204>>, <<0, 204, 204>>, <<0, 153, 204>>, <<0, 102, 204>>, <<0, 51, 204>>, <<0, 0, 204>>, <<0, 255, 153>>, <<0, 204, 153>>,
     <<0, 153, 153>>, <<0, 102, 153>>, <<0, 51, 153>>, <<0, 0, 153>>, <<255, 255, 102>>, <<255, 204, 102>>, <<255, 153, 102>>, <<255, 102, 102>>,
     <<255, 51, 102>>, <<255, 0, 102>>, <<255, 255, 51>>, <<255, 204, 51>>, <<255, 153, 51>>, <<255, 102, 51>>, <<255, 51, 51>>, <<255, 0, 51>>,
     <<255, 255, 0>>, <<255, 204, 0>>, <<255, 153, 0>>, <<255, 102, 0>>, <<255, 51, 0>>, <<255, 0, 0>>, <<204, 255, 102>>, <<204, 204, 102>>,
     <<204, 153, 102>>, <<204, 102, 102>>, <<204, 51, 102>>, <<204, 0, 102>>, <<204, 255, 51>>, <<204, 204, 51>>, <<204, 153, 51>>, <<204, 102, 51>>,
     <<204, 51, 51>>, <<204, 0, 51>>, <<204, 255, 0>>, <<204, 204, 0>>, <<204, 153, 0>>, <<204, 102, 0>>, <<204, 51, 0>>, <<204, 0, 0>>,
     <<153, 255, 102>>, <<153, 204, 102>>, <<153, 153, 102>>, <<153, 102, 102>>, <<153, 51, 102>>, <<153, 0, 102>>, <<153, 255, 51>>, <<153, 204, 51>>,
     <<153, 153, 51>>, <<153, 102, 51>>, <<153, 51, 51>>, <<153, 0, 51>>, <<153, 255, 0>>, <<153, 204, 0>>, <<153, 153, 0>>, <<153, 102, 0>>,
     <<153, 51, 0>>, <<153, 0, 0>>, <<102, 255, 102>>, <<102, 204, 102>>, <<102, 153, 102>>, <<102, 102, 102>>, <<102, 51, 102>>, <<102, 0, 102>>,
     <<102, 255, 51>>, <<102, 204, 51>>, <<102, 153, 51>>, <<102, 102, 51>>, <<102, 51, 51>>, <<102, 0, 51>>, <<102, 255, 0>>, <<102, 204, 0>>,
     <<102, 153, 0>>, <<102, 102, 0>>, <<102, 51, 0>>, <<102, 0, 0>>, <<51, 255, 102>>, <<51, 204, 102>>, <<51, 153, 102>>, <<51, 102, 102>>,
     <<51, 51, 102>>, <<51, 0, 102>>, <<51, 255, 51>>, <<51, 204, 51>>, <<51, 153, 51>>, <<51, 102, 51>>, <<51, 51, 51>>, <<51, 0, 51>>,
     <<51, 255, 0>>, <<51, 204, 0>>, <<51, 153, 0>>, <<51, 102, 0>>, <<51, 51, 0>>, <<51, 0, 0>>, <<0, 255, 102>>, <<0, 204, 102>>,
     <<0, 153, 102>>, <<0, 102, 102>>, <<0, 51, 102>>, <<0, 0, 102>>, <<0, 255, 51>>, <<0, 204, 51>>, <<0, 153, 51>>, <<0, 102, 51>>,
     <<0, 51, 51>>, <<0, 0, 51>>, <<0, 255, 0>>, <<0, 204, 0>>, <<0, 153, 0>>, <<0, 102, 0>>, <<0, 51, 0>>, <<17, 17, 17>>,
     <<34, 34, 34>>, <<68, 68, 68>>, <<85, 85, 85>>, <<119, 119, 119>>, <<136, 136, 136>>, <<170, 170, 170>>, <<187, 187, 187>>, <<221, 221, 221>>,
     <<238, 238, 238>>, <<192, 192, 192>>, <<128, 0, 0>>, <<128, 0, 128>>, <<0, 128, 0>>, <<0, 128, 128>>, <<0, 0, 0>>, <<0, 0, 0>>,
     <<0, 0, 0>>, <<0, 0, 0>>, <<0, 0, 0>>, <<0, 0, 0>>, <<0, 0, 0>>, <<0, 0, 0>>, <<0, 0, 0>>, <<0, 0, 0>>,
     <<0, 0, 0>>, <<0, 0, 0>>, <<0, 0, 0>>, <<0, 0, 0>>, <<0, 0, 0>>, <<0, 0, 0>>, <<0, 0, 0>>, <<0, 0, 0>>,
     <<0, 0, 0>>, <<0, 0, 0>>, <<0, 0, 0>>, <<0, 0, 0>>, <<0, 0, 0>>, <<0, 0, 0>>, <<0, 0, 0>>, <<0, 0, 0>>
    >>

\* websafe_color
websafe_color(index) ==
    IF index < 256
    THEN LET c == WEBSAFE_PALETTE[index + 1] IN Color(c[1], c[2], c[3])
    ELSE Color(0, 0, 0)

-----------------------------------------------------------------------------
(* The `?` operator                                                        *)

\* Ok(v): the value returned, unless an error is already on its way up
Ok(p, v) == IF p.err # "Ok" THEN p ELSE [p EXCEPT !.val = v]

\* return Err(e)
Err(p, e) == IF p.err # "Ok" THEN p ELSE [p EXCEPT !.err = e]

\* `let q = <p>?; F(q)`: an error in p is returned at once
Then(p, F(_)) == IF p.err # "Ok" THEN p ELSE F(p)

\* `Some(<p>?)`
OkSome(p) == Then(p, LAMBDA q : Ok(q, Some(q.val)))

-----------------------------------------------------------------------------
(* BitStream (src/src/bitstream.rs)                                        *)

\* BitStream::new
BitStreamNew == [byte_pos |-> 0, bit_pos |-> 0]

\* BitStream::has_more_bits
has_more_bits(b) == b.byte_pos < Len(data)

\* read_bit as it would be with a default value in place of the error
read_bit_default(p) ==
    IF p.err # "Ok" THEN p
    ELSE IF p.byte_pos >= Len(data)
    THEN [p EXCEPT !.val = 0, !.past_end = @ + 1]
    ELSE LET byte == data[p.byte_pos + 1]
             bit == (byte \div (2 ^ (7 - p.bit_pos))) % 2
         IN IF p.bit_pos + 1 = 8
            THEN [p EXCEPT !.val = bit, !.bit_pos = 0, !.byte_pos = @ + 1,
                           !.bits_read = @ + 1]
            ELSE [p EXCEPT !.val = bit, !.bit_pos = @ + 1, !.bits_read = @ + 1]

\* read_bit as it would be reading each byte least significant bit first
read_bit_lsb(p) ==
    IF p.err # "Ok" THEN p
    ELSE IF p.byte_pos >= Len(data)
    THEN [p EXCEPT !.err = "EndOfStream", !.past_end = @ + 1]
    ELSE LET byte == data[p.byte_pos + 1]
             bit == (byte \div (2 ^ p.bit_pos)) % 2
         IN IF p.bit_pos + 1 = 8
            THEN [p EXCEPT !.val = bit, !.bit_pos = 0, !.byte_pos = @ + 1,
                           !.bits_read = @ + 1]
            ELSE [p EXCEPT !.val = bit, !.bit_pos = @ + 1, !.bits_read = @ + 1]

\* read_bit as it would be if the wrap at bit 8 forgot to advance the byte
read_bit_nowrap(p) ==
    IF p.err # "Ok" THEN p
    ELSE IF p.byte_pos >= Len(data)
    THEN [p EXCEPT !.err = "EndOfStream", !.past_end = @ + 1]
    ELSE LET byte == data[p.byte_pos + 1]
             bit == (byte \div (2 ^ (7 - p.bit_pos))) % 2
         IN IF p.bit_pos + 1 = 8
            THEN [p EXCEPT !.val = bit, !.bit_pos = 0, !.bits_read = @ + 1]
            ELSE [p EXCEPT !.val = bit, !.bit_pos = @ + 1, !.bits_read = @ + 1]

\* BitStream::read_bit.  p.past_end counts the calls made with no bit left,
\* p.bits_read those that returned a bit.
read_bit(p) ==
    IF p.err # "Ok" THEN p
    ELSE IF p.byte_pos >= Len(data)
    THEN [p EXCEPT !.err = "EndOfStream", !.past_end = @ + 1]
    ELSE LET byte == data[p.byte_pos + 1]
             bit == (byte \div (2 ^ (7 - p.bit_pos))) % 2
         IN IF p.bit_pos + 1 = 8
            THEN [p EXCEPT !.val = bit, !.bit_pos = 0, !.byte_pos = @ + 1,
                           !.bits_read = @ + 1]
            ELSE [p EXCEPT !.val = bit, !.bit_pos = @ + 1, !.bits_read = @ + 1]

\* an iteration that takes a 0 for a bit that is not there:
\* val = (val << 1) | (self.read_bit().unwrap_or(0) as u32)
read_bits_step_lenient(p) ==
    Then(read_bit_default(p), LAMBDA q : Ok(q, Shl1Or(p.val, q.val)))

\* one iteration of the loop of read_bits, p.val the u32 so far:
\* val = (val << 1) | (self.read_bit()? as u32)
read_bits_step(p) == Then(read_bit(p), LAMBDA q : Ok(q, Shl1Or(p.val, q.val)))

\* k iterations of the loop of read_bits, the first k \div 2 and then the
\* rest; an error leaves the loop at once
RECURSIVE read_bits_loop(_, _)
read_bits_loop(p, k) ==
    IF k = 0 THEN p
    ELSE IF k = 1 THEN read_bits_step(p)
    ELSE Then(read_bits_loop(p, k \div 2), LAMBDA m : read_bits_loop(m, k - k \div 2))

\* BitStream::read_bits: p.val is the u32 read
read_bits(p, n) == read_bits_loop(Ok(p, U32Zero), n)

\* the arithmetic of read_signed_bits on the u32 read, q.val: q.val is the
\* i32 returned; q.wrapped tells that a step overflowed and wrapped
\* (overflow_checks off).
sign_extend(q, n) ==
    LET val == q.val
        \* n - 1 on u8
        sub_ovf == n = 0
        nm1 == IF n = 0 THEN 255 ELSE n - 1
        \* 1u32 << (n - 1): the shift amount is taken modulo 32 when unchecked
        shl1_ovf == nm1 >= 32
        sign_set == U32Bit(val, nm1 % 32) = 1
        \* 1i32 << n
        shl2_ovf == n >= 32
        pow == Shl1I32(n % 32)
        diff == SubI32(AsI32(val), pow)
    IN IF sub_ovf \/ shl1_ovf
       THEN IF overflow_checks THEN [q EXCEPT !.err = "Panic"]
            ELSE IF sign_set
                 THEN [q EXCEPT !.val = diff.val, !.wrapped = TRUE]
                 ELSE [q EXCEPT !.val = AsI32(val), !.wrapped = TRUE]
       ELSE IF sign_set
       THEN IF shl2_ovf \/ diff.ovf
            THEN IF overflow_checks THEN [q EXCEPT !.err = "Panic"]
                 ELSE [q EXCEPT !.val = diff.val, !.wrapped = TRUE]
            ELSE [q EXCEPT !.val = diff.val]
       ELSE [q EXCEPT !.val = AsI32(val)]

\* BitStream::read_signed_bits
read_signed_bits(p, n) == Then(read_bits(p, n), LAMBDA q : sign_extend(q, n))

-----------------------------------------------------------------------------
(* WvgParser (src/src/parser.rs): the header                               *)

\* a parser whose first element would be numbered 1
WvgParserFromOne ==
    [element_masks |-> <<>>,
     attribute_masks |-> AttributeMasksDefault,
     generic_params |-> GenericParamsDefault,
     is_compact |-> FALSE,
     flat_params |-> None,
     offset_x_use |-> FALSE,
     offset_y_use |-> FALSE,
     elements |-> <<>>,
     element_index |-> 1]

\* WvgParser::new
WvgParserNew ==
    [element_masks |-> <<>>,
     attribute_masks |-> AttributeMasksDefault,
     generic_params |-> GenericParamsDefault,
     is_compact |-> FALSE,
     flat_params |-> None,
     offset_x_use |-> FALSE,
     offset_y_use |-> FALSE,
     elements |-> <<>>,
     element_index |-> 0]

\* `if self.bs.read_bit()? == 1 { Some(F?) } else { None }`
Optional(p, F(_)) ==
    Then(read_bit(p), LAMBDA q : IF q.val = 1 THEN OkSome(F(q)) ELSE Ok(q, None))

\* a character skipped as 8 bits whatever the text code mode is
skip_char_byte(p, char_bits) == read_bits(p, 8)

\* one iteration of the character loop of parse_optional_string
skip_char(p, char_bits) == read_bits(p, char_bits)

RECURSIVE skip_chars(_, _, _)
skip_chars(p, k, char_bits) ==
    IF k = 0 THEN p
    ELSE IF k = 1 THEN skip_char(p, char_bits)
    ELSE Then(skip_chars(p, k \div 2, char_bits), LAMBDA m : skip_chars(m, k - k \div 2, char_bits))

\* parse_optional_string: p.val is None or Some("")
parse_optional_string(p, text_code_mode) ==
    LET char_bits == IF text_code_mode = "Ucs2" THEN 16 ELSE 7
    IN Then(read_bit(p), LAMBDA p1 :
         IF p1.val = 0 THEN Ok(p1, None)
         ELSE Then(read_bits(p1, 8), LAMBDA p2 :
                Ok(skip_chars(p2, AsUsize(p2.val), char_bits), Some(""))))

\* parse_timestamp: p.val is None or Some(timestamp)
parse_timestamp(p) ==
    Then(read_bit(p), LAMBDA p1 :
      IF p1.val = 0 THEN Ok(p1, None)
      ELSE Then(read_signed_bits(p1, 13), LAMBDA p2 :
           Then(read_bits(p2, 4), LAMBDA p3 :
           Then(read_bits(p3, 5), LAMBDA p4 :
           Then(read_bits(p4, 5), LAMBDA p5 :
           Then(read_bits(p5, 6), LAMBDA p6 :
           Then(read_bits(p6, 6), LAMBDA p7 :
             Ok(p7, Some([year |-> p2.val, month |-> AsU8(p3.val),
                          day |-> AsU8(p4.val), hour |-> AsU8(p5.val),
                          minute |-> AsU8(p6.val), second |-> AsU8(p7.val)])))))))))

\* parse_general_info: p.val is the GeneralInfo
parse_general_info(p) ==
    Then(read_bits(p, 4), LAMBDA p1 :
    Then(read_bit(p1), LAMBDA p2 :
      IF p2.val = 1
      THEN Then(read_bit(p2), LAMBDA p3 :
             LET mode == IF p3.val = 1 THEN "Ucs2" ELSE "Gsm7Bit"
             IN Then(parse_optional_string(p3, mode), LAMBDA p4 :
                Then(parse_optional_string(p4, mode), LAMBDA p5 :
                Then(parse_timestamp(p5), LAMBDA p6 :
                  Ok(p6, [version |-> AsU8(p1.val), text_code_mode |-> Some(mode),
                          author |-> p4.val, title |-> p5.val,
                          timestamp |-> p6.val])))))
      ELSE Ok(p2, [GeneralInfoDefault EXCEPT !.version = AsU8(p1.val)])))

\* the colour of a 6-bit rgb value: 2 bits per channel, each times 85
Rgb6(rgb) ==
    Color(((rgb \div 16) % 4) * 85, ((rgb \div 4) % 4) * 85, (rgb % 4) * 85)

\* one iteration of the loop of parse_6bit_palette, p.val the palette so far
palette6_step(p) ==
    Then(read_bits(p, 6), LAMBDA q : Ok(q, Append(p.val, Rgb6(AsUsize(q.val)))))

RECURSIVE palette6_loop(_, _)
palette6_loop(p, k) ==
    IF k = 0 THEN p
    ELSE IF k = 1 THEN palette6_step(p)
    ELSE Then(palette6_loop(p, k \div 2), LAMBDA m : palette6_loop(m, k - k \div 2))

\* parse_6bit_palette: p.val is the palette
parse_6bit_palette(p) ==
    Then(read_bits(p, 5), LAMBDA p1 :
      palette6_loop(Ok(p1, <<>>), AsUsize(p1.val) + 1))

\* one iteration of the loop of parse_8bit_palette, p.val the palette so far
palette8_step(p) ==
    Then(read_bits(p, 8), LAMBDA q :
      Ok(q, Append(p.val, websafe_color(AsUsize(q.val)))))

RECURSIVE palette8_loop(_, _)
palette8_loop(p, k) ==
    IF k = 0 THEN p
    ELSE IF k = 1 THEN palette8_step(p)
    ELSE Then(palette8_loop(p, k \div 2), LAMBDA m : palette8_loop(m, k - k \div 2))

\* parse_8bit_palette: p.val is the palette
parse_8bit_palette(p) ==
    Then(read_bits(p, 7), LAMBDA p1 :
      palette8_loop(Ok(p1, <<>>), AsUsize(p1.val) + 1))

\* parse_color_scheme: p.val is the ColorScheme
parse_color_scheme(p) ==
    Then(read_bit(p), LAMBDA b1 :
    Then(read_bit(b1), LAMBDA b2 :
      IF b1.val = 0 /\ b2.val = 0 THEN Ok(b2, "BlackAndWhite")
      ELSE Then(read_bit(b2), LAMBDA b3 :
        IF b1.val = 0
        THEN Ok(b3, IF b3.val = 0 THEN "Grayscale2Bit" ELSE "Predefined2Bit")
        ELSE IF b2.val = 0
        THEN Ok(b3, IF b3.val = 0 THEN "Rgb6Bit" ELSE "Websafe")
        ELSE Then(read_bit(b3), LAMBDA b4 :
          LET suffix == b3.val * 2 + b4.val
          IN CASE suffix = 0 -> Ok(parse_6bit_palette(b4), "Rgb6BitPalette")
               [] suffix = 1 -> Ok(parse_8bit_palette(b4), "WebsafePalette")
               [] suffix = 2 -> Ok(b4, "Rgb12Bit")
               [] suffix = 3 -> Ok(b4, "Rgb24Bit")))))

\* parse_draw_color: p.val is the Color
parse_draw_color(p, scheme) ==
    CASE scheme = "BlackAndWhite" ->
            Then(read_bit(p), LAMBDA q : Ok(q, IF q.val = 1 THEN BLACK ELSE WHITE))
      [] scheme = "Grayscale2Bit" ->
            Then(read_bits(p, 2), LAMBDA q :
              LET gray == AsU8(U32(0, AsUsize(q.val) * 85))
              IN Ok(q, Color(gray, gray, gray)))
      [] scheme = "Predefined2Bit" ->
            Then(read_bits(p, 2), LAMBDA q :
              LET v == AsUsize(q.val)
              IN Ok(q, CASE v = 0 -> WHITE
                         [] v = 1 -> Color(255, 0, 0)
                         [] v = 2 -> Color(0, 255, 0)
                         [] v = 3 -> Color(0, 0, 255)))
      [] scheme = "Rgb6Bit" ->
            Then(read_bits(p, 6), LAMBDA q : Ok(q, Rgb6(AsUsize(q.val))))
      [] scheme = "Websafe" ->
            Then(read_bits(p, 8), LAMBDA q : Ok(q, websafe_color(AsUsize(q.val))))
      [] scheme = "Rgb12Bit" ->
            Then(read_bits(p, 12), LAMBDA q :
              LET rgb == AsUsize(q.val)
              IN Ok(q, Color(((rgb \div 256) % 16) * 17, ((rgb \div 16) % 16) * 17,
                             (rgb % 16) * 17)))
      [] scheme = "Rgb24Bit" ->
            Then(read_bits(p, 8), LAMBDA q1 :
            Then(read_bits(q1, 8), LAMBDA q2 :
            Then(read_bits(q2, 8), LAMBDA q3 :
              Ok(q3, Color(AsU8(q1.val), AsU8(q2.val), AsU8(q3.val))))))
      [] scheme \in {"Rgb6BitPalette", "WebsafePalette"} -> Ok(p, BLACK)

\* parse_color_configuration: p.val is the ColorConfig
parse_color_configuration(p) ==
    Then(parse_color_scheme(p), LAMBDA p1 :
    Then(Optional(p1, LAMBDA q : parse_draw_color(q, p1.val)), LAMBDA p2 :
    Then(Optional(p2, LAMBDA q : parse_draw_color(q, p1.val)), LAMBDA p3 :
    Then(Optional(p3, LAMBDA q : parse_draw_color(q, p1.val)), LAMBDA p4 :
      Ok(p4, [scheme |-> p1.val, default_line_color |-> p2.val,
              default_fill_color |-> p3.val, background_color |-> p4.val])))))

\* one iteration of a mask loop of parse_element_mask, p.val the masks so far:
\* masks.push(self.bs.read_bit()? == 1)
mask_step(p) == Then(read_bit(p), LAMBDA q : Ok(q, Append(p.val, q.val = 1)))

RECURSIVE mask_loop(_, _)
mask_loop(p, k) ==
    IF k = 0 THEN p
    ELSE IF k = 1 THEN mask_step(p)
    ELSE Then(mask_loop(p, k \div 2), LAMBDA m : mask_loop(m, k - k \div 2))

\* parse_element_mask: sets self.element_masks
parse_element_mask(p) ==
    Then(mask_loop(Ok(p, <<>>), 8), LAMBDA p1 :
    Then(read_bit(p1), LAMBDA p2 :
      IF p2.val = 1
      THEN Then(mask_loop(Ok(p2, p1.val), 5), LAMBDA p3 :
             [p3 EXCEPT !.element_masks = p3.val])
      ELSE [p2 EXCEPT !.element_masks = p1.val]))

\* self.attribute_masks.<field> = self.bs.read_bit()? == 1
read_attribute_mask(p, field) ==
    Then(read_bit(p), LAMBDA q :
      [q EXCEPT !.attribute_masks = [@ EXCEPT ![field] = (q.val = 1)]])

\* parse_attribute_mask: sets self.attribute_masks
parse_attribute_mask(p) ==
    read_attribute_mask(
        read_attribute_mask(
            read_attribute_mask(
                read_attribute_mask(p, "line_type"), "line_width"), "line_color"),
        "fill")

\* self.generic_params.<field> = self.bs.read_bits(n)? as u8
read_generic_param(p, field, n) ==
    Then(read_bits(p, n), LAMBDA q :
      [q EXCEPT !.generic_params = [@ EXCEPT ![field] = AsU8(q.val)]])

\* self.element_masks.get(i).copied().unwrap_or(false), i counted from 0
mask_get(masks, i) == IF i < Len(masks) THEN masks[i + 1] ELSE FALSE

\* parse_generic_parameters: sets self.generic_params
parse_generic_parameters(p) ==
    \* angle parameters
    Then(read_bit(p), LAMBDA a1 :
    Then(IF a1.val = 1
         THEN read_generic_param(read_generic_param(a1, "angle_resolution", 2),
                                 "angle_in_bits", 3)
         ELSE a1, LAMBDA a2 :
    \* scale parameters
    Then(read_bit(a2), LAMBDA s1 :
    Then(IF s1.val = 1
         THEN read_generic_param(read_generic_param(s1, "scale_resolution", 2),
                                 "scale_in_bits", 4)
         ELSE s1, LAMBDA s2 :
    \* index parameters
    Then(read_bit(s2), LAMBDA i1 :
    Then(IF i1.val = 1 THEN read_generic_param(i1, "index_in_bits", 4) ELSE i1,
         LAMBDA i2 :
      \* curve offset bits
      IF mask_get(i2.element_masks, 2) \/ mask_get(i2.element_masks, 8)
      THEN Then(read_bit(i2), LAMBDA c1 :
             [c1 EXCEPT !.generic_params =
                            [@ EXCEPT !.curve_offset_in_bits = Some(c1.val)]])
      ELSE i2))))))

\* parse_flat_coordinate_parameters: p.val is the FlatCoordinateParams
parse_flat_coordinate_parameters(p) ==
    Then(read_bits(p, 16), LAMBDA p1 :
    Then(read_bit(p1), LAMBDA p2 :
    Then(IF p2.val = 1 THEN read_bits(p2, 16) ELSE Ok(p2, p1.val), LAMBDA p3 :
    Then(read_bits(p3, 4), LAMBDA p4 :
    Then(read_bits(p4, 4), LAMBDA p5 :
    Then(read_bit(p5), LAMBDA p6 :
    Then(read_bits(p6, 4), LAMBDA p7 :
    Then(read_bits(p7, 4), LAMBDA p8 :
    Then(read_bits(p8, 4), LAMBDA p9 :
    Then(read_bits(p9, 4), LAMBDA p10 :
    Then(read_bits(p10, 4), LAMBDA p11 :
    Then(read_bits(p11, 4), LAMBDA p12 :
      Ok(p12, [drawing_width |-> AsU16(p1.val),
               drawing_height |-> AsU16(p3.val),
               max_x_in_bits |-> AsU8(p4.val),
               max_y_in_bits |-> AsU8(p5.val),
               xy_all_positive |-> (p6.val = 1),
               trans_xy_in_bits |-> AsU8(p7.val),
               num_points_in_bits |-> AsU8(p8.val),
               offset_x_in_bits_level1 |-> AsU8(p9.val),
               offset_y_in_bits_level1 |-> AsU8(p10.val),
               offset_x_in_bits_level2 |-> AsU8(p11.val),
               offset_y_in_bits_level2 |-> AsU8(p12.val)])))))))))))))

\* a decoder that goes on in compact mode as if the mode were flat
parse_coordinate_parameters_lenient(p) ==
    Then(read_bit(p), LAMBDA p1 :
      Then(parse_flat_coordinate_parameters([p1 EXCEPT !.is_compact = p1.val = 1]),
           LAMBDA p2 :
        [p2 EXCEPT !.flat_params = Some(p2.val),
                   !.val = [kind |-> "Flat", params |-> p2.val]]))

\* parse_coordinate_parameters: sets self.is_compact and self.flat_params;
\* p.val is CoordinateParams::Flat(params)
parse_coordinate_parameters(p) ==
    Then(read_bit(p), LAMBDA p1 :
      IF p1.val = 1
      THEN Err([p1 EXCEPT !.is_compact = TRUE],
               "UnsupportedFeature(CompactCoordinateMode)")
      ELSE Then(parse_flat_coordinate_parameters([p1 EXCEPT !.is_compact = FALSE]),
                LAMBDA p2 :
             [p2 EXCEPT !.flat_params = Some(p2.val),
                        !.val = [kind |-> "Flat", params |-> p2.val]]))

\* parse_animation_settings: p.val is None or Some(mode)
parse_animation_settings(p) ==
    Then(p, LAMBDA p0 :
      IF mask_get(p0.element_masks, 7)
      THEN Then(read_bit(p0), LAMBDA q :
             Ok(q, Some(IF q.val = 0 THEN "Simple" ELSE "Standard")))
      ELSE Ok(p0, None))

\* parse_codec_parameters: p.val is <<CodecParams, animation_mode>>
parse_codec_parameters(p) ==
    Then(parse_element_mask(p), LAMBDA p1 :
    Then(parse_attribute_mask(p1), LAMBDA p2 :
    Then(parse_generic_parameters(p2), LAMBDA p3 :
    Then(parse_coordinate_parameters(p3), LAMBDA p4 :
    Then(parse_animation_settings(p4), LAMBDA p5 :
      Ok(p5, <<[element_masks |-> p5.element_masks,
                attribute_masks |-> p5.attribute_masks,
                generic_params |-> p5.generic_params,
                coord_params |-> p4.val],
               p5.val>>))))))

-----------------------------------------------------------------------------
(* WvgParser (src/src/parser.rs): the elements                             *)

Point(x, y) == [x |-> x, y |-> y]

\* self.flat_params.as_ref().unwrap()
FlatParams(p) == Unwrap(p.flat_params)

\* parse_translate_value
parse_translate_value(p) == read_signed_bits(p, FlatParams(p).trans_xy_in_bits)

\* parse_angle_value
parse_angle_value(p) == read_signed_bits(p, p.generic_params.angle_in_bits + 1)

\* parse_scale_value
parse_scale_value(p) == read_signed_bits(p, p.generic_params.scale_in_bits + 1)

\* if params.xy_all_positive { read_bits(bits)? as i32 }
\* else { read_signed_bits(bits)? }
read_coordinate(p, bits) ==
    IF FlatParams(p).xy_all_positive
    THEN Then(read_bits(p, bits), LAMBDA q : Ok(q, AsI32(q.val)))
    ELSE read_signed_bits(p, bits)

\* parse_x_value
parse_x_value(p) == read_coordinate(p, FlatParams(p).max_x_in_bits)

\* parse_y_value
parse_y_value(p) == read_coordinate(p, FlatParams(p).max_y_in_bits)

\* parse_point: p.val is the Point
parse_point(p) ==
    Then(read_coordinate(p, FlatParams(p).max_x_in_bits), LAMBDA px :
    Then(read_coordinate(px, FlatParams(px).max_y_in_bits), LAMBDA py :
      Ok(py, Point(px.val, py.val))))

\* offsets read at their level-1 widths whatever the offset-use flags are
parse_offset_level1(p) ==
    Then(read_signed_bits(p, FlatParams(p).offset_x_in_bits_level1), LAMBDA px :
    Then(read_signed_bits(px, FlatParams(p).offset_y_in_bits_level1), LAMBDA py :
      Ok(py, <<px.val, py.val>>)))

\* parse_offset: p.val is <<dx, dy>>
parse_offset(p) ==
    LET params == FlatParams(p)
        x_bits == IF p.offset_x_use THEN params.offset_x_in_bits_level2
                  ELSE params.offset_x_in_bits_level1
        y_bits == IF p.offset_y_use THEN params.offset_y_in_bits_level2
                  ELSE params.offset_y_in_bits_level1
    IN Then(read_signed_bits(p, x_bits), LAMBDA px :
       Then(read_signed_bits(px, y_bits), LAMBDA py :
         Ok(py, <<px.val, py.val>>)))

\* curve offsets of 4 bits whatever the header says
parse_curve_offset_4bit(p, curve_hint) ==
    IF curve_hint
    THEN Then(read_bit(p), LAMBDA q :
           IF q.val = 0 THEN Ok(q, 0) ELSE read_signed_bits(q, 4))
    ELSE read_signed_bits(p, 4)

\* parse_curve_offset: p.val is the curve offset
parse_curve_offset(p, curve_hint) ==
    LET bits == IF UnwrapOr(p.generic_params.curve_offset_in_bits, 0) = 1
                THEN 5 ELSE 4
    IN IF curve_hint
       THEN Then(read_bit(p), LAMBDA q :
              IF q.val = 0 THEN Ok(q, 0) ELSE read_signed_bits(q, bits))
       ELSE read_signed_bits(p, bits)

\* parse_transform: p.val is the Transform
parse_transform(p) ==
    Then(Optional(p, parse_translate_value), LAMBDA tx :
    Then(Optional(tx, parse_translate_value), LAMBDA ty :
    \* optional: angle, scale, center
    Then(read_bit(ty), LAMBDA ext :
      IF ext.val = 1
      THEN Then(Optional(ext, parse_angle_value), LAMBDA an :
           Then(Optional(an, parse_scale_value), LAMBDA sx :
           Then(Optional(sx, parse_scale_value), LAMBDA sy :
           Then(Optional(sy, parse_translate_value), LAMBDA cx :
           Then(Optional(cx, parse_translate_value), LAMBDA cy :
             Ok(cy, [translate_x |-> tx.val, translate_y |-> ty.val,
                     angle |-> an.val, scale_x |-> sx.val, scale_y |-> sy.val,
                     cx |-> cx.val, cy |-> cy.val]))))))
      ELSE Ok(ext, [TransformDefault EXCEPT !.translate_x = tx.val,
                                            !.translate_y = ty.val]))))

\* attrs.line_type = Some(LineType::from(self.bs.read_bits(2)?))
read_line_type(p) ==
    Then(read_bits(p, 2), LAMBDA q : Ok(q, Some(LineTypeFrom(AsUsize(q.val)))))

\* attrs.line_width = Some(LineWidth::from(self.bs.read_bits(2)?))
read_line_width(p) ==
    Then(read_bits(p, 2), LAMBDA q : Ok(q, Some(LineWidthFrom(AsUsize(q.val)))))

\* the fill of parse_attributes_set: p.val is [fill, fill_color]
read_fill(p) ==
    Then(read_bit(p), LAMBDA f :
      IF f.val = 1
      THEN Then(read_bit(f), LAMBDA c :
             Ok(c, [fill |-> Some(TRUE),
                    fill_color |-> IF c.val = 1 THEN Some(BLACK) ELSE None]))
      ELSE Ok(f, [fill |-> Some(FALSE), fill_color |-> None]))

\* parse_attributes_set: p.val is the ElementAttributes
parse_attributes_set(p) ==
    LET m == p.attribute_masks
    IN Then(IF m.line_type THEN read_line_type(p) ELSE Ok(p, None), LAMBDA p1 :
       Then(IF m.line_width THEN read_line_width(p1) ELSE Ok(p1, None), LAMBDA p2 :
       \* the line color is read only if the line width is not None
       Then(IF m.line_color /\ UnwrapOr(p2.val, "Fine") # "None"
            THEN read_bit(p2) ELSE Ok(p2, 0), LAMBDA p3 :
       Then(IF m.fill THEN read_fill(p3)
            ELSE Ok(p3, [fill |-> None, fill_color |-> None]), LAMBDA p4 :
         Ok(p4, [line_type |-> p1.val, line_width |-> p2.val,
                 line_color |-> IF p3.val = 1 THEN Some(BLACK) ELSE None,
                 fill |-> p4.val.fill, fill_color |-> p4.val.fill_color])))))

\* a header that reads the has-attributes bit whatever the masks are
parse_basic_element_header_ungated(p) ==
    IF p.is_compact THEN Err(p, "UnsupportedFeature(CompactCoordinateMode)")
    ELSE Then(read_bit(p), LAMBDA p1 :
         Then(read_bit([p1 EXCEPT !.offset_x_use = (p1.val = 1)]), LAMBDA p2 :
         Then(read_bit([p2 EXCEPT !.offset_y_use = (p2.val = 1)]), LAMBDA p3 :
           IF p3.val = 1 THEN parse_attributes_set(p3)
           ELSE Ok(p3, ElementAttributesDefault))))

\* parse_basic_element_header: sets self.offset_x_use / offset_y_use;
\* p.val is the ElementAttributes
parse_basic_element_header(p) ==
    IF p.is_compact THEN Err(p, "UnsupportedFeature(CompactCoordinateMode)")
    ELSE Then(read_bit(p), LAMBDA p1 :
         Then(read_bit([p1 EXCEPT !.offset_x_use = (p1.val = 1)]), LAMBDA p2 :
           LET q == [p2 EXCEPT !.offset_y_use = (p2.val = 1)]
               m == q.attribute_masks
               has_any_attr == m.line_type \/ m.line_width \/ m.line_color \/ m.fill
           IN IF has_any_attr
              THEN Then(read_bit(q), LAMBDA p3 :
                     IF p3.val = 1 THEN parse_attributes_set(p3)
                     ELSE Ok(p3, ElementAttributesDefault))
              ELSE Ok(q, ElementAttributesDefault)))

\* one iteration of the loop of parse_polyline_element, p.val the points
polyline_step(p) ==
    LET prev == p.val[Len(p.val)]
    IN Then(parse_offset(p), LAMBDA q :
         Ok(q, Append(p.val, Point(prev.x + q.val[1], prev.y + q.val[2]))))

RECURSIVE polyline_loop(_, _)
polyline_loop(p, k) ==
    IF k = 0 THEN p
    ELSE IF k = 1 THEN polyline_step(p)
    ELSE Then(polyline_loop(p, k \div 2), LAMBDA m : polyline_loop(m, k - k \div 2))

\* parse_polyline_element: p.val is ElementData::Polyline
parse_polyline_element(p) ==
    Then(parse_basic_element_header(p), LAMBDA p1 :
    Then(read_bits(p1, FlatParams(p1).num_points_in_bits), LAMBDA p2 :
    \* first point (absolute)
    Then(parse_point(p2), LAMBDA p3 :
    \* subsequent points (relative offsets)
    Then(polyline_loop(Ok(p3, <<p3.val>>), AsUsize(p2.val)), LAMBDA p4 :
      Ok(p4, [kind |-> "Polyline", attributes |-> p1.val, points |-> p4.val])))))

CircularPoint(curve_offset, point, is_absolute) ==
    [curve_offset |-> curve_offset, point |-> point, is_absolute |-> is_absolute]

\* an iteration that stores the position a relative point leads to
circular_step_accumulated(p, curve_hint) ==
    Then(parse_curve_offset(p, curve_hint), LAMBDA q1 :
    Then(parse_offset(q1), LAMBDA q2 :
      Ok(q2, Append(p.val,
                    CircularPoint(q1.val,
                                  Point(p.val[Len(p.val)].point.x + q2.val[1],
                                        p.val[Len(p.val)].point.y + q2.val[2]),
                                  FALSE)))))

\* one iteration of the loop of parse_circular_polyline_element, p.val the
\* points
circular_step(p, curve_hint) ==
    Then(parse_curve_offset(p, curve_hint), LAMBDA q1 :
    Then(parse_offset(q1), LAMBDA q2 :
      Ok(q2, Append(p.val,
                    CircularPoint(q1.val, Point(q2.val[1], q2.val[2]), FALSE)))))

RECURSIVE circular_loop(_, _, _)
circular_loop(p, k, curve_hint) ==
    IF k = 0 THEN p
    ELSE IF k = 1 THEN circular_step(p, curve_hint)
    ELSE Then(circular_loop(p, k \div 2, curve_hint), LAMBDA m : circular_loop(m, k - k \div 2, curve_hint))

\* parse_circular_polyline_element: p.val is ElementData::CircularPolyline
parse_circular_polyline_element(p) ==
    Then(parse_basic_element_header(p), LAMBDA p1 :
    Then(read_bit(p1), LAMBDA p2 :
    Then(read_bits(p2, FlatParams(p2).num_points_in_bits), LAMBDA p3 :
    \* first point (absolute)
    Then(parse_point(p3), LAMBDA p4 :
    \* second point (absolute) with curve offset
    Then(parse_curve_offset(p4, p2.val = 1), LAMBDA p5 :
    Then(parse_point(p5), LAMBDA p6 :
    \* subsequent points (relative) with curve offsets
    Then(circular_loop(Ok(p6, <<CircularPoint(0, p4.val, TRUE),
                                CircularPoint(p5.val, p6.val, TRUE)>>),
                       AsUsize(p3.val), p2.val = 1), LAMBDA p7 :
      Ok(p7, [kind |-> "CircularPolyline", attributes |-> p1.val,
              points |-> p7.val]))))))))

\* parse_simple_shape_element: p.val is ElementData::SimpleShape
parse_simple_shape_element(p) ==
    Then(parse_basic_element_header(p), LAMBDA p1 :
    Then(read_bit(p1), LAMBDA p2 :
      Ok(p2, [kind |-> "SimpleShape",
              shape_type |-> IF p2.val = 0 THEN "Rectangle" ELSE "Ellipse",
              attributes |-> p1.val])))

\* (self.bs.read_bits(4)? + 1) as u8
read_count(p) ==
    Then(read_bits(p, 4), LAMBDA q : Ok(q, AsU8(U32(0, AsUsize(q.val) + 1))))

\* parse_array_parameter: p.val is the ArrayParams
parse_array_parameter(p) ==
    Then(read_count(p), LAMBDA p1 :
    Then(IF p1.val > 1 THEN OkSome(parse_x_value(p1)) ELSE Ok(p1, None), LAMBDA p2 :
    Then(read_count(p2), LAMBDA p3 :
    Then(IF p3.val > 1
         THEN Then(read_bit(p3), LAMBDA h :
                \* 0 | (1 <Y>)
                IF h.val = 1 THEN OkSome(parse_y_value(h)) ELSE Ok(h, p2.val))
         ELSE Ok(p3, None), LAMBDA p4 :
      Ok(p4, [columns |-> p1.val, rows |-> p3.val, width |-> p2.val,
              height |-> p4.val])))))

\* parse_override_attribute_set: p.val is the ElementAttributes
parse_override_attribute_set(p) ==
    \* 0 | (1 <line type>)
    Then(Optional(p, LAMBDA q : Then(read_bits(q, 2), LAMBDA r :
                                  Ok(r, LineTypeFrom(AsUsize(r.val))))), LAMBDA p1 :
    \* 0 | (1 <line width>)
    Then(Optional(p1, LAMBDA q : Then(read_bits(q, 2), LAMBDA r :
                                   Ok(r, LineWidthFrom(AsUsize(r.val))))), LAMBDA p2 :
    \* 0 | (1 <line color>)
    Then(read_bit(p2), LAMBDA p3 :
    \* 0 | (1 <fill>)
    Then(Optional(p3, LAMBDA q : Then(read_bit(q), LAMBDA r : Ok(r, r.val = 1))),
         LAMBDA p4 :
    \* 0 | (1 <fill color>)
    Then(read_bit(p4), LAMBDA p5 :
      Ok(p5, [line_type |-> p1.val, line_width |-> p2.val,
              line_color |-> IF p3.val = 1 THEN Some(BLACK) ELSE None,
              fill |-> p4.val,
              fill_color |-> IF p5.val = 1 THEN Some(BLACK) ELSE None]))))))

\* elem_index & ((1 << (idx_bits - 1)) - 1)
MaskMsb(elem_index, idx_bits) == elem_index % (2 ^ (idx_bits - 1))

\* an index that is kept as read whatever the number of elements
reuse_index_raw(elem_index, idx_bits, len) == elem_index

\* parse_reuse_element: the index kept for the index read, with len elements
\* decoded so far
reuse_index(elem_index, idx_bits, len) ==
    IF elem_index >= len /\ MaskMsb(elem_index, idx_bits) < len
    THEN MaskMsb(elem_index, idx_bits)
    ELSE elem_index

\* parse_reuse_element: p.val is ElementData::Reuse
parse_reuse_element(p) ==
    LET idx_bits == p.generic_params.index_in_bits + 1
    IN Then(read_bits(p, idx_bits), LAMBDA p1 :
       Then(parse_transform(p1), LAMBDA p2 :
       \* array parameters
       Then(Optional(p2, parse_array_parameter), LAMBDA p3 :
       \* override attributes
       Then(Optional(p3, parse_override_attribute_set), LAMBDA p4 :
         Ok(p4, [kind |-> "Reuse",
                 element_index |->
                     reuse_index(AsUsize(p1.val), idx_bits, Len(p.elements)),
                 transform |-> p2.val, array_params |-> p3.val,
                 override_attributes |-> p4.val])))))

\* parse_group_element: p.val is ElementData::GroupStart or ::GroupEnd
parse_group_element(p) ==
    Then(read_bit(p), LAMBDA p1 :
      IF p1.val = 0
      THEN Then(Optional(p1, parse_transform), LAMBDA p2 :
           Then(read_bit(p2), LAMBDA p3 :
             Ok(p3, [kind |-> "GroupStart", transform |-> p2.val,
                     display |-> (p3.val = 1)])))
      ELSE Ok(p1, [kind |-> "GroupEnd"]))

\* self.element_masks.iter().filter(|&&x| x).count()
ones_count(masks) == Cardinality({i \in 1..Len(masks) : masks[i]})

\* a width function that reads a bit as soon as one flag is set
type_index_bits_eager(c) ==
    IF c = 0 THEN 0
    ELSE IF c <= 2 THEN 1
    ELSE IF c <= 4 THEN 2
    ELSE IF c <= 8 THEN 3
    ELSE 4

\* parse_element: let bits = match ones_count { ... }
type_index_bits(c) ==
    IF c \in {0, 1} THEN 0
    ELSE IF c = 2 THEN 1
    ELSE IF c \in {3, 4} THEN 2
    ELSE IF c \in 5..8 THEN 3
    ELSE 4

\* parse_element: let elem_type_idx = if bits > 0 { read_bits(bits)? } else { 0 }
read_elem_type_idx(p) ==
    LET bits == type_index_bits(ones_count(p.element_masks))
    IN IF bits > 0 THEN read_bits(p, bits) ELSE Ok(p, U32Zero)

\* a mapping that takes the index for the kind itself
actual_type_direct(masks, i, current_idx, elem_type_idx) ==
    IF elem_type_idx < Len(masks) THEN Some(elem_type_idx) ELSE None

\* parse_element: the loop over self.element_masks mapping the index to the
\* kind, from position i on with current_idx set flags passed
RECURSIVE actual_type_from(_, _, _, _)
actual_type_from(masks, i, current_idx, elem_type_idx) ==
    IF i >= Len(masks) THEN None
    ELSE IF masks[i + 1]
    THEN IF current_idx = elem_type_idx THEN Some(i)
         ELSE actual_type_from(masks, i + 1, current_idx + 1, elem_type_idx)
    ELSE actual_type_from(masks, i + 1, current_idx, elem_type_idx)

\* the UnsupportedFeature variant parse_element returns for a kind
unsupported_feature(actual_type) ==
    CASE actual_type = 0 -> "LocalEnvelope"
      [] actual_type = 3 -> "BezierPolyline"
      [] actual_type = 7 -> "SimpleAnimation"
      [] actual_type = 8 -> "Polygon"
      [] actual_type = 9 -> "SpecialShape"
      [] actual_type = 10 -> "FrameElement"
      [] actual_type = 11 -> "TextElement"
      [] actual_type = 12 -> "ExtendedElement"

\* a decoder that takes a polygon for a polyline
element_data_lenient(p, actual_type) ==
    CASE actual_type \in {1, 8} -> parse_polyline_element(p)
      [] actual_type = 2 -> parse_circular_polyline_element(p)
      [] actual_type = 4 -> parse_simple_shape_element(p)
      [] actual_type = 5 -> parse_reuse_element(p)
      [] actual_type = 6 -> parse_group_element(p)
      [] actual_type \in {0, 3, 7, 9, 10, 11, 12} ->
            Err(p, "UnsupportedFeature(" \o unsupported_feature(actual_type) \o ")")
      [] OTHER -> [p EXCEPT !.err = "InvalidElementType", !.val = actual_type]

\* parse_element: let element_data = match actual_type { ... }
element_data(p, actual_type) ==
    CASE actual_type = 1 -> parse_polyline_element(p)
      [] actual_type = 2 -> parse_circular_polyline_element(p)
      [] actual_type = 4 -> parse_simple_shape_element(p)
      [] actual_type = 5 -> parse_reuse_element(p)
      [] actual_type = 6 -> parse_group_element(p)
      [] actual_type \in {0, 3, 7, 8, 9, 10, 11, 12} ->
            Err(p, "UnsupportedFeature(" \o unsupported_feature(actual_type) \o ")")
      [] OTHER -> [p EXCEPT !.err = "InvalidElementType", !.val = actual_type]

\* parse_element: pushes one WvgElement on self.elements, or fails
parse_element(p) ==
    Then(read_elem_type_idx(p), LAMBDA p1 :
      LET elem_type_idx == AsUsize(p1.val)
          actual_type == actual_type_from(p1.element_masks, 0, 0, elem_type_idx)
          element_id == "el_" \o ToString(p1.element_index)
      IN IF ~IsSome(actual_type)
         THEN [p1 EXCEPT !.err = "InvalidElementType", !.val = elem_type_idx]
         ELSE Then(element_data([p1 EXCEPT !.element_index = @ + 1],
                                Unwrap(actual_type)), LAMBDA p2 :
                [p2 EXCEPT !.elements =
                               Append(@, [id |-> element_id, data |-> p2.val])]))

\* a count read with the two widths exchanged
parse_num_elements_swapped(p) ==
    Then(read_bit(p), LAMBDA p1 :
    Then(IF p1.val = 0 THEN read_bits(p1, 15) ELSE read_bits(p1, 7), LAMBDA p2 :
      Ok(p2, AsUsize(p2.val))))

\* parse_elements: the number of elements, 0 <7 bits> | 1 <15 bits>
parse_num_elements(p) ==
    Then(read_bit(p), LAMBDA p1 :
    Then(IF p1.val = 0 THEN read_bits(p1, 7) ELSE read_bits(p1, 15), LAMBDA p2 :
      Ok(p2, AsUsize(p2.val))))

\* a first step that takes the version before it looks at the profile
parse_wvg_type_late(p) ==
    Then(read_bit(p), LAMBDA p1 :
      IF p1.val = 0
      THEN Then(read_bits(p1, 4), LAMBDA p2 :
             Err(p2, "UnsupportedFeature(CharacterSizeWvg)"))
      ELSE p1)

\* parse: let wvg_type = read_bit()?; if wvg_type == 0 { return Err(...) }
parse_wvg_type(p) ==
    Then(read_bit(p), LAMBDA p1 :
      IF p1.val = 0 THEN Err(p1, "UnsupportedFeature(CharacterSizeWvg)") ELSE p1)

-----------------------------------------------------------------------------
(* BitSpec: a client of the BitStream API                                  *)

\* the thread record of a BitStream call made at cursor b
BitThread(b) ==
    [byte_pos |-> b.byte_pos, bit_pos |-> b.bit_pos, err |-> "Ok", val |-> 0,
     wrapped |-> FALSE, past_end |-> 0, bits_read |-> 0]

Cursor(p) == [byte_pos |-> p.byte_pos, bit_pos |-> p.bit_pos]

\* what a call returned: Ok(val), Err(err) or a panic
Outcome(p) == IF p.err = "Ok" THEN "Ok" ELSE IF p.err = "Panic" THEN "Panic" ELSE "Err"

NoCall ==
    [op |-> "none", n |-> 0, kind |-> "Ok", err |-> "Ok", val |-> 0, u |-> U32Zero,
     wrapped |-> FALSE, from |-> BitStreamNew]

\* streak: n successful read_bit calls in a row, the first made at cursor
\* `from`; a run is followed for StreakLen calls, then the next one starts
StreakLen == 8
NoStreak == [n |-> 0, from |-> BitStreamNew]

\* parse has not returned; parse_element has not been called
NoResult == [kind |-> "Pending", err |-> "Ok", info |-> 0, doc |-> None]
NoElement ==
    [called |-> FALSE, from |-> BitStreamNew, index_read |-> FALSE,
     after_index |-> BitStreamNew, elem_type_idx |-> 0, actual_type |-> None,
     len_before |-> 0, err |-> "Ok"]

RECURSIVE BuffersOfLen(_)
BuffersOfLen(k) ==
    IF k = 0 THEN {<<>>}
    ELSE {Append(s, b) : s \in BuffersOfLen(k - 1), b \in ByteVals}

Buffers ==
    UNION {BuffersOfLen(k) : k \in 0..MaxBytes} \cup TestBuffers \cup WideBuffers

BitInit ==
    /\ data \in Buffers
    /\ overflow_checks \in BOOLEAN
    /\ bs = BitStreamNew
    /\ ret = NoCall
    /\ streak = NoStreak
    /\ parser = None
    /\ pc = "idle"
    /\ header = None
    /\ remaining = 0
    /\ last = NoElement
    /\ past_end = 0
    /\ bits_read = 0
    /\ result = NoResult
    /\ first = NoResult
    /\ svg = None

\* the variables only Spec changes
ParseVars ==
    <<parser, pc, header, remaining, last, past_end, bits_read, result, first, svg>>

\* a panic unwinds the client: nothing is called afterwards
Running == ret.kind # "Panic"

CallReadBit ==
    /\ Running
    /\ LET p == read_bit(BitThread(bs))
       IN /\ bs' = Cursor(p)
          /\ ret' = [op |-> "read_bit", n |-> 1, kind |-> Outcome(p), err |-> p.err,
                     val |-> p.val, u |-> U32Zero, wrapped |-> FALSE, from |-> bs]
          /\ streak' = IF p.err # "Ok" THEN NoStreak
                       ELSE IF streak.n \in {0, StreakLen} THEN [n |-> 1, from |-> bs]
                       ELSE [streak EXCEPT !.n = @ + 1]
    /\ UNCHANGED <<data, overflow_checks, ParseVars>>

CallReadBits(n) ==
    /\ Running
    /\ LET p == read_bits(BitThread(bs), n)
       IN /\ bs' = Cursor(p)
          /\ ret' = [op |-> "read_bits", n |-> n, kind |-> Outcome(p), err |-> p.err,
                     val |-> 0, u |-> IF p.err = "Ok" THEN p.val ELSE U32Zero,
                     wrapped |-> FALSE, from |-> bs]
          /\ streak' = NoStreak
    /\ UNCHANGED <<data, overflow_checks, ParseVars>>

CallReadSignedBits(n) ==
    /\ Running
    /\ LET t == BitThread(bs)
           q == read_bits(t, n)
           p == read_signed_bits(t, n)
       IN /\ bs' = Cursor(p)
          /\ ret' = [op |-> "read_signed_bits", n |-> n, kind |-> Outcome(p),
                     err |-> p.err, val |-> IF p.err = "Ok" THEN p.val ELSE 0,
                     u |-> IF q.err = "Ok" THEN q.val ELSE U32Zero,
                     wrapped |-> p.wrapped, from |-> bs]
          /\ streak' = NoStreak
    /\ UNCHANGED <<data, overflow_checks, ParseVars>>

BitNext ==
    \/ CallReadBit
    \/ \E n \in Widths : CallReadBits(n)
    \/ \E n \in Widths : CallReadSignedBits(n)

BitSpec == BitInit /\ [][BitNext]_vars

-----------------------------------------------------------------------------
(* Spec: WvgParser::parse over an input buffer                             *)

\* tests/integration_test.rs: the sample drawing
SAMPLE_DATA ==
    <<128, 12, 128, 40, 0, 64, 64, 8, 29, 110, 102, 106,
      162, 64, 41, 164, 77, 55, 5, 189, 3, 120, 131, 245,
      48, 113, 167, 50, 73, 138, 89, 146, 87, 85, 68, 162,
      72, 120, 20, 79, 97, 205, 74, 145, 138, 144, 7, 64,
      29, 48, 2, 42, 162, 112, 178, 233, 243, 132, 240, 80,
      151, 75, 14, 122, 156, 205, 198, 96, 235, 174, 64, 249,
      101, 139, 58, 233, 128, 4, 187, 160, 12, 233, 53, 33,
      42, 164, 37, 212, 2, 239, 163, 219, 226, 128, 166, 53,
      24, 22, 216, 100, 64, 112, 192>>

\* v as n binary digits, most significant first
RECURSIVE Bits(_, _)
Bits(v, n) == IF n = 0 THEN <<>> ELSE Append(Bits(v \div 2, n - 1), v % 2)

\* the byte whose digits are bits[from..from+7], zeros past the end
ByteAt(bits, from) ==
    LET Bit(i) == IF i <= Len(bits) THEN bits[i] ELSE 0
    IN Bit(from) * 128 + Bit(from + 1) * 64 + Bit(from + 2) * 32 + Bit(from + 3) * 16
       + Bit(from + 4) * 8 + Bit(from + 5) * 4 + Bit(from + 6) * 2 + Bit(from + 7)

\* the bits as bytes, MSB-first, the last byte padded with zeros
RECURSIVE PackBytes(_, _)
PackBytes(bits, k) ==
    IF k = 0 THEN <<>>
    ELSE Append(PackBytes(bits, k - 1), ByteAt(bits, 8 * (k - 1) + 1))

Pack(bits) == PackBytes(bits, (Len(bits) + 7) \div 8)

Flag(b) == IF b THEN <<1>> ELSE <<0>>

\* the bits of a standard header: version 0, no extended info, black and
\* white, no default colours, the element mask of the kinds in `kinds`, the
\* four attribute masks equal to attr, default generic parameters, flat
\* coordinates with the widths of prof, and num_elements elements
HeaderBits(kinds, attr, prof, num_elements) ==
    LET M(i) == Flag(i \in kinds)
        ext == \E i \in kinds : i >= 8
    IN <<1>> \o Bits(0, 4) \o <<0>>
       \o <<0, 0>> \o <<0, 0, 0>>
       \o M(0) \o M(1) \o M(2) \o M(3) \o M(4) \o M(5) \o M(6) \o M(7)
       \o Flag(ext)
       \o (IF ext THEN M(8) \o M(9) \o M(10) \o M(11) \o M(12) ELSE <<>>)
       \o Flag(attr) \o Flag(attr) \o Flag(attr) \o Flag(attr)
       \o <<0, 0, 0>>
       \o (IF 2 \in kinds \/ 8 \in kinds THEN <<0>> ELSE <<>>)
       \o <<0>>
       \o Bits(128, 16) \o <<0>>
       \o Bits(prof.max_x, 4) \o Bits(prof.max_y, 4) \o Flag(prof.all_positive)
       \o Bits(prof.trans, 4) \o Bits(prof.num_points, 4)
       \o Bits(prof.offset1, 4) \o Bits(prof.offset1, 4)
       \o Bits(prof.offset2, 4) \o Bits(prof.offset2, 4)
       \o (IF 7 \in kinds THEN <<0>> ELSE <<>>)
       \o <<0>> \o Bits(num_elements, 7)

\* element masks: the first c kinds for every count c, each kind alone, the
\* mask of the sample drawing and the mask of the kinds that are decoded
KindSets ==
    {0..(c - 1) : c \in 0..13} \cup {{i} : i \in 0..12}
        \cup {{1, 2, 5}, {1, 2, 4, 5, 6}}

\* bit widths of the flat coordinate parameters
Profiles ==
    {[all_positive |-> TRUE, max_x |-> 7, max_y |-> 5, trans |-> 7,
      num_points |-> 4, offset1 |-> 3, offset2 |-> 5],
     [all_positive |-> FALSE, max_x |-> 4, max_y |-> 4, trans |-> 3,
      num_points |-> 2, offset1 |-> 2, offset2 |-> 3],
     [all_positive |-> FALSE, max_x |-> 0, max_y |-> 0, trans |-> 0,
      num_points |-> 1, offset1 |-> 0, offset2 |-> 0]}

\* the element section of a generated input: up to MaxTail bytes
MaxTail == 2
NumElements == 2

RECURSIVE TailsOfLen(_)
TailsOfLen(k) ==
    IF k = 0 THEN {<<>>}
    ELSE {t \o Bits(b, 8) : t \in TailsOfLen(k - 1), b \in ByteVals}

Tails == UNION {TailsOfLen(k) : k \in 0..MaxTail}

Generated ==
    {Pack(HeaderBits(kinds, attr, prof, NumElements) \o tail) :
        kinds \in KindSets, attr \in BOOLEAN, prof \in Profiles, tail \in Tails}

\* the sample drawing cut after each byte
Truncated == {SubSeq(SAMPLE_DATA, 1, k) : k \in 0..Len(SAMPLE_DATA)}

\* the sample drawing with its first bit cleared
CharacterSize == {[SAMPLE_DATA EXCEPT ![1] = 0], <<0>>, <<127, 255>>, <<85>>}

\* drawings made for one case each: a group end and then a polygon; two
\* simple shapes and then an index past the last set flag; a polyline whose
\* coordinates are declared 0 bits wide
Crafted ==
    {Pack(HeaderBits({6, 8}, FALSE, CHOOSE prof \in Profiles : prof.max_x = 7, 2)
          \o <<0, 1, 1>>),
     Pack(HeaderBits({1, 4, 6}, FALSE, CHOOSE prof \in Profiles : prof.max_x = 4, 3)
          \o <<0, 1, 0, 0, 1>> \o <<0, 1, 1, 1, 0>> \o <<1, 1>>),
     Pack(HeaderBits({1}, FALSE, CHOOSE prof \in Profiles : prof.max_x = 0, 1)
          \o <<0, 0, 0>>)}

\* the bits of a standard header up to the coordinate mode bit, which
\* selects the compact mode
CompactBits(kinds) ==
    LET M(i) == Flag(i \in kinds)
    IN <<1>> \o Bits(0, 4) \o <<0>>
       \o <<0, 0>> \o <<0, 0, 0>>
       \o M(0) \o M(1) \o M(2) \o M(3) \o M(4) \o M(5) \o M(6) \o M(7)
       \o <<0>>
       \o <<0, 0, 0, 0>>
       \o <<0, 0, 0>>
       \o (IF 2 \in kinds THEN <<0>> ELSE <<>>)
       \o <<1>>

\* drawings in compact coordinate mode, with and without bytes after the
\* mode bit
Compact ==
    {Pack(CompactBits(kinds) \o tail) :
        kinds \in {{1}, {1, 2, 5}, {}},
        tail \in {<<>>, Bits(0, 16), Bits(65535, 16), Bits(2, 8) \o Bits(170, 24)}}

\* a group end; a reuse of index i with no transform, array or override
\* (element mask {5, 6}, index_in_bits = 2)
GroupEndBits == <<1, 1>>
ReuseBits(i) == <<0>> \o Bits(i, 3) \o <<0, 0, 0, 0, 0>>

\* drawings whose reuse elements have an index in range, an index that is
\* in range once its most significant bit is cleared, and an index that is
\* out of range either way
Reuses ==
    LET prof == CHOOSE q \in Profiles : q.max_x = 7
        H(n) == HeaderBits({5, 6}, FALSE, prof, n)
    IN {Pack(H(4) \o GroupEndBits \o GroupEndBits \o ReuseBits(4) \o ReuseBits(1)),
        Pack(H(4) \o GroupEndBits \o GroupEndBits \o ReuseBits(5) \o ReuseBits(6)),
        Pack(H(3) \o GroupEndBits \o GroupEndBits \o ReuseBits(7)),
        Pack(H(3) \o GroupEndBits \o GroupEndBits \o ReuseBits(3)),
        Pack(H(2) \o GroupEndBits \o ReuseBits(1)),
        Pack(H(2) \o GroupEndBits \o ReuseBits(0))}

\* the bits of a standard header as HeaderBits builds them, with the bits
\* `info` after the version (the extended information), the four attribute
\* masks of `masks` and the curve offset width bit `curve`
StandardBits(info, kinds, masks, curve, prof, num_elements) ==
    LET M(i) == Flag(i \in kinds)
    IN <<1>> \o Bits(0, 4) \o info
       \o <<0, 0>> \o <<0, 0, 0>>
       \o M(0) \o M(1) \o M(2) \o M(3) \o M(4) \o M(5) \o M(6) \o M(7)
       \o <<0>>
       \o Flag(masks[1]) \o Flag(masks[2]) \o Flag(masks[3]) \o Flag(masks[4])
       \o <<0, 0, 0>>
       \o (IF 2 \in kinds THEN <<curve>> ELSE <<>>)
       \o <<0>>
       \o Bits(128, 16) \o <<0>>
       \o Bits(prof.max_x, 4) \o Bits(prof.max_y, 4) \o Flag(prof.all_positive)
       \o Bits(prof.trans, 4) \o Bits(prof.num_points, 4)
       \o Bits(prof.offset1, 4) \o Bits(prof.offset1, 4)
       \o Bits(prof.offset2, 4) \o Bits(prof.offset2, 4)
       \o (IF 7 \in kinds THEN <<0>> ELSE <<>>)
       \o <<0>> \o Bits(num_elements, 7)

\* bits for the body of an element: a parser reads as many as it needs
RECURSIVE BitsOfBytes(_)
BitsOfBytes(bytes) ==
    IF bytes = <<>> THEN <<>>
    ELSE Bits(bytes[1], 8) \o BitsOfBytes(SubSeq(bytes, 2, Len(bytes)))
Payloads ==
    {BitsOfBytes(<<181, 46, 151, 76, 225, 58, 199, 100>>),
     BitsOfBytes(<<74, 209, 104, 179, 30, 197, 56, 155>>),
     BitsOfBytes(<<230, 25, 92, 163, 15, 240, 170, 85>>)}
NoMasks == <<FALSE, FALSE, FALSE, FALSE>>
WideProfiles == {prof \in Profiles : prof.max_x > 0}

\* drawings of one polyline: every pair of offset-use flags, 1 to 3 points
Polyline1 ==
    {Pack(StandardBits(<<0>>, {1}, NoMasks, 0, prof, 1)
          \o Flag(x_use) \o Flag(y_use) \o Bits(n, prof.num_points) \o payload) :
        prof \in WideProfiles, x_use \in BOOLEAN, y_use \in BOOLEAN,
        n \in 0..2, payload \in Payloads}

\* drawings of one circular polyline: curve offsets of 4 and of 5 bits,
\* with and without the curve hint, 2 to 4 points
Circular1 ==
    {Pack(StandardBits(<<0>>, {2}, NoMasks, curve, prof, 1)
          \o Flag(use) \o Flag(~use) \o <<hint>> \o Bits(n, prof.num_points)
          \o payload) :
        prof \in WideProfiles, curve \in {0, 1}, use \in BOOLEAN, hint \in {0, 1},
        n \in 0..2, payload \in Payloads}

\* drawings of two elements, each a polyline or a simple shape as its first
\* bit says, under every combination of the four attribute masks
Attributed ==
    {Pack(StandardBits(<<0>>, {1, 4}, <<m1, m2, m3, m4>>, 0,
                       CHOOSE prof \in Profiles : prof.max_x = 4, 2)
          \o payload) :
        m1 \in BOOLEAN, m2 \in BOOLEAN, m3 \in BOOLEAN, m4 \in BOOLEAN,
        payload \in Payloads \cup {<<1, 0, 1, 1>> \o q : q \in Payloads}}

\* the bits of an author or a title: absent, or a length and the characters
StringBits(length, char_bits, payload) ==
    <<1>> \o Bits(length, 8) \o SubSeq(payload, 1, length * char_bits)

\* drawings with extended information: both text code modes, author and
\* title absent or of 0 to 3 characters of different contents, no timestamp
\* or one; then a group end
TitledIn(mode, char_bits) ==
    {Pack(StandardBits(<<1, mode>> \o author \o title \o stamp,
                       {6}, NoMasks, 0, CHOOSE prof \in Profiles : prof.max_x = 4, 1)
          \o GroupEndBits) :
        author \in {<<0>>} \cup {StringBits(length, char_bits, payload) :
                                    length \in {0, 3}, payload \in Payloads},
        title \in {<<0>>} \cup {StringBits(2, char_bits, payload) :
                                   payload \in Payloads},
        stamp \in {<<0>>, <<1>> \o Bits(2026, 13) \o Bits(11, 4) \o Bits(3, 5)
                                \o Bits(9, 5) \o Bits(30, 6) \o Bits(0, 6)}}
Titled == TitledIn(0, 7) \cup TitledIn(1, 16)

\* drawings whose element count is a 15-bit field: 3 and 130 group ends
\* under the element mask {5, 6}, with and without bytes after the last
RECURSIVE Repeated(_, _)
Repeated(bits, k) ==
    IF k = 0 THEN <<>>
    ELSE IF k = 1 THEN bits
    ELSE Repeated(bits, k \div 2) \o Repeated(bits, k - k \div 2)
LongCount ==
    LET prof == CHOOSE q \in Profiles : q.max_x = 7
        H == HeaderBits({5, 6}, FALSE, prof, 0)
        gate == SubSeq(H, 1, Len(H) - 8)
    IN {Pack(gate \o <<1>> \o Bits(n, 15) \o Repeated(GroupEndBits, n)) \o more :
           n \in {3, 130}, more \in {<<>>, <<255>>, <<0, 77>>}}

Inputs ==
    Generated \cup Truncated \cup CharacterSize \cup Crafted \cup Compact
        \cup Reuses \cup Polyline1 \cup Circular1 \cup Attributed \cup Titled
        \cup LongCount

HeaderNone ==
    [general_info |-> None, color_config |-> None, codec_params |-> None,
     animation_mode |-> None]

Init ==
    /\ data \in Inputs
    /\ overflow_checks \in BOOLEAN
    /\ bs = BitStreamNew
    /\ ret = NoCall
    /\ streak = NoStreak
    /\ parser = WvgParserNew
    /\ pc = "parse"
    /\ header = HeaderNone
    /\ remaining = 0
    /\ last = NoElement
    /\ past_end = 0
    /\ bits_read = 0
    /\ result = NoResult
    /\ first = NoResult
    /\ svg = None

\* the thread record of a parser step: cursor, ghost counter, parser fields
Thread ==
    [byte_pos |-> bs.byte_pos, bit_pos |-> bs.bit_pos, err |-> "Ok", val |-> 0,
     wrapped |-> FALSE, past_end |-> past_end, bits_read |-> bits_read,
     element_masks |-> parser.element_masks,
     attribute_masks |-> parser.attribute_masks,
     generic_params |-> parser.generic_params,
     is_compact |-> parser.is_compact,
     flat_params |-> parser.flat_params,
     offset_x_use |-> parser.offset_x_use,
     offset_y_use |-> parser.offset_y_use,
     elements |-> parser.elements,
     element_index |-> parser.element_index]

ParserOf(p) ==
    [element_masks |-> p.element_masks,
     attribute_masks |-> p.attribute_masks,
     generic_params |-> p.generic_params,
     is_compact |-> p.is_compact,
     flat_params |-> p.flat_params,
     offset_x_use |-> p.offset_x_use,
     offset_y_use |-> p.offset_y_use,
     elements |-> p.elements,
     element_index |-> p.element_index]

\* what parse returns when a step failed: Err(e), or the panic unwinding
Failure(p) ==
    [kind |-> IF p.err = "Panic" THEN "Panic" ELSE "Err",
     err |-> p.err,
     info |-> IF p.err = "InvalidElementType" THEN p.val ELSE 0,
     doc |-> None]

\* Ok(WvgDocument { header, elements: self.elements })
Success ==
    [kind |-> "Ok", err |-> "Ok", info |-> 0,
     doc |-> Some([header |-> header, elements |-> parser.elements])]

\* the step that produced thread p is over: on success go on at `next`,
\* on failure (the `?` operator) parse returns
Step(p, next) ==
    /\ bs' = Cursor(p)
    /\ past_end' = p.past_end
    /\ bits_read' = p.bits_read
    /\ parser' = ParserOf(p)
    /\ pc' = IF p.err = "Ok" THEN next ELSE "done"
    /\ result' = IF p.err = "Ok" THEN result ELSE Failure(p)
    /\ UNCHANGED <<data, overflow_checks, ret, streak, first, svg>>

ParseWvgType ==
    /\ pc = "parse"
    /\ \E p \in {parse_wvg_type(Thread)} : Step(p, "general_info")
    /\ UNCHANGED <<header, remaining, last>>

ParseGeneralInfo ==
    /\ pc = "general_info"
    /\ \E p \in {parse_general_info(Thread)} :
          /\ Step(p, "color_configuration")
          /\ header' = IF p.err = "Ok" THEN [header EXCEPT !.general_info = p.val]
                       ELSE header
    /\ UNCHANGED <<remaining, last>>

ParseColorConfiguration ==
    /\ pc = "color_configuration"
    /\ \E p \in {parse_color_configuration(Thread)} :
          /\ Step(p, "codec_parameters")
          /\ header' = IF p.err = "Ok" THEN [header EXCEPT !.color_config = p.val]
                       ELSE header
    /\ UNCHANGED <<remaining, last>>

ParseCodecParameters ==
    /\ pc = "codec_parameters"
    /\ \E p \in {parse_codec_parameters(Thread)} :
          /\ Step(p, "elements")
          /\ header' = IF p.err = "Ok"
                       THEN [header EXCEPT !.codec_params = p.val[1],
                                           !.animation_mode = p.val[2]]
                       ELSE header
    /\ UNCHANGED <<remaining, last>>

ParseNumElements ==
    /\ pc = "elements"
    /\ \E p \in {parse_num_elements(Thread)} :
          /\ Step(p, "element")
          /\ remaining' = IF p.err = "Ok" THEN p.val ELSE remaining
    /\ UNCHANGED <<header, last>>

\* what a parse_element call did: where it started, whether the type index
\* was read and where the cursor was then, the index, the kind it maps to
ElementTrace(p1, p) ==
    [called |-> TRUE,
     from |-> bs,
     index_read |-> p1.err = "Ok",
     after_index |-> Cursor(p1),
     elem_type_idx |-> IF p1.err = "Ok" THEN AsUsize(p1.val) ELSE 0,
     actual_type |->
         IF p1.err = "Ok"
         THEN actual_type_from(p1.element_masks, 0, 0, AsUsize(p1.val))
         ELSE None,
     len_before |-> Len(parser.elements),
     err |-> p.err]

ParseElement ==
    /\ pc = "element"
    /\ remaining > 0
    /\ \E p1 \in {read_elem_type_idx(Thread)}, p \in {parse_element(Thread)} :
          /\ Step(p, "element")
          /\ last' = ElementTrace(p1, p)
    /\ remaining' = remaining - 1
    /\ UNCHANGED header

ParseReturn ==
    /\ pc = "element"
    /\ remaining = 0
    /\ pc' = "done"
    /\ result' = Success
    /\ UNCHANGED <<data, overflow_checks, bs, ret, streak, parser, header,
                   remaining, last, past_end, bits_read, first, svg>>

Next ==
    \/ ParseWvgType
    \/ ParseGeneralInfo
    \/ ParseColorConfiguration
    \/ ParseCodecParameters
    \/ ParseNumElements
    \/ ParseElement
    \/ ParseReturn

Spec == Init /\ [][Next]_vars

-----------------------------------------------------------------------------
(* TwiceSpec: the same buffer decoded twice                                *)

\* a parser that numbers its elements on from where the one before stopped
WvgParserContinued(earlier) ==
    [WvgParserNew EXCEPT !.element_index = earlier.element_index]

\* WvgParser::new for a decode that follows another: every field is set by
\* the constructor, none is taken from the earlier parser
WvgParserAfter(earlier) == WvgParserNew

\* the caller keeps the outcome and decodes the buffer again:
\* BitStream::new(data), WvgParser::new(&mut bs), parse()
DecodeAgain ==
    /\ pc = "done"
    /\ first = NoResult
    /\ first' = result
    /\ bs' = BitStreamNew
    /\ parser' = WvgParserAfter(parser)
    /\ pc' = "parse"
    /\ header' = HeaderNone
    /\ remaining' = 0
    /\ last' = NoElement
    /\ past_end' = 0
    /\ bits_read' = 0
    /\ result' = NoResult
    /\ UNCHANGED <<data, overflow_checks, ret, streak, svg>>

TwiceNext ==
    \/ Next
    \/ DecodeAgain

TwiceSpec == Init /\ [][TwiceNext]_vars


-----------------------------------------------------------------------------
(* SvgConverter (src/src/svg.rs)                                           *)
(*                                                                         *)
(* The output is a sequence of lines, one per write_line call.  A line is  *)
(* a record with the tag it opens or closes and the values formatted into  *)
(* it; a piece of markup built by format! is a sequence of tokens, each an *)
(* attribute name="value" or text written outside any attribute.           *)

\* ConverterConfig::default()
ConverterConfigDefault ==
    [include_comments |-> FALSE, pretty_print |-> FALSE, line_width_scale |-> None]

\* name="value", and text that stands outside the quotes of an attribute
Attribute(name, value) == [token |-> "attribute", name |-> name, value |-> value]
Text(value) == [token |-> "text", name |-> "", value |-> value]

\* format!("{:02x}", v) for a u8
HexDigits ==
    <<"0", "1", "2", "3", "4", "5", "6", "7", "8", "9", "a", "b", "c", "d", "e", "f">>
Hex2(v) == HexDigits[(v \div 16) + 1] \o HexDigits[(v % 16) + 1]

\* color_to_hex
color_to_hex(color) == "#" \o Hex2(color.r) \o Hex2(color.g) \o Hex2(color.b)

\* SvgContext::new; angle_resolution is 22.5 / 2^r and scale_resolution
\* 0.25 / 2^r, kept as the fractions they are
SvgContextNew(document, config) ==
    [document |-> document,
     config |-> config,
     output |-> <<>>,
     indent |-> 0,
     group_stack |-> <<>>,
     angle_resolution |->
         [num |-> 225,
          den |-> 10 * 2 ^ document.header.codec_params.generic_params.angle_resolution],
     scale_resolution |->
         [num |-> 25,
          den |-> 100 * 2 ^ document.header.codec_params.generic_params.scale_resolution]]

\* write_line: the indentation and the newline are written when
\* pretty_print is set
write_line(c, line) ==
    [c EXCEPT !.output =
         Append(@, [indent |-> IF c.config.pretty_print THEN c.indent ELSE 0,
                    newline |-> c.config.pretty_print,
                    line |-> line])]

\* the (width, height) of write_header and write_default_styles
drawing_size(c) ==
    LET cp == c.document.header.codec_params.coord_params
    IN IF cp.kind = "Flat"
       THEN <<cp.params.drawing_width, cp.params.drawing_height>>
       ELSE <<100, 100>>

\* write_default_styles
write_default_styles(c) ==
    LET cc == c.document.header.color_config
        stroke == IF IsSome(cc.default_line_color)
                  THEN color_to_hex(Unwrap(cc.default_line_color)) ELSE "#000000"
        fill == IF IsSome(cc.default_fill_color)
                THEN color_to_hex(Unwrap(cc.default_fill_color)) ELSE "none"
        size == drawing_size(c)
        bg(d) == IF IsSome(cc.background_color)
                 THEN write_line(d, [tag |-> "rect", width |-> size[1],
                                     height |-> size[2],
                                     fill |-> color_to_hex(Unwrap(cc.background_color))])
                 ELSE d
        in(d) == [d EXCEPT !.indent = @ + 1]
        out(d) == [d EXCEPT !.indent = @ - 1]
    IN write_line(out(write_line(in(write_line(bg(c), [tag |-> "defs"])),
                                 [tag |-> "style", stroke |-> stroke, fill |-> fill])),
                  [tag |-> "/defs"])

\* write_header
write_header(c) ==
    LET size == drawing_size(c)
        in(d) == [d EXCEPT !.indent = @ + 1]
    IN write_default_styles(
           in(write_line(write_line(c, [tag |-> "?xml"]),
                         [tag |-> "svg", width |-> size[1], height |-> size[2]])))

\* build_transform: the parts of transform="..."; a part is a function name,
\* its integer arguments and, for an angle or a scale, the resolution the
\* argument is multiplied by
build_transform(c, t) ==
    LET tx == UnwrapOr(t.translate_x, 0)
        ty == UnwrapOr(t.translate_y, 0)
        cx == UnwrapOr(t.cx, 0)
        cy == UnwrapOr(t.cy, 0)
        none == [num |-> 1, den |-> 1]
        translate == IF tx # 0 \/ ty # 0
                     THEN <<[fn |-> "translate", args |-> <<tx, ty>>, unit |-> none]>>
                     ELSE <<>>
        rotate == IF IsSome(t.angle)
                  THEN IF cx # 0 \/ cy # 0
                       THEN <<[fn |-> "rotate", args |-> <<Unwrap(t.angle), cx, cy>>,
                               unit |-> c.angle_resolution]>>
                       ELSE <<[fn |-> "rotate", args |-> <<Unwrap(t.angle)>>,
                               unit |-> c.angle_resolution]>>
                  ELSE <<>>
        scale == IF IsSome(t.scale_x) /\ IsSome(t.scale_y)
                 THEN <<[fn |-> "scale",
                         args |-> <<Unwrap(t.scale_x), Unwrap(t.scale_y)>>,
                         unit |-> c.scale_resolution]>>
                 ELSE IF IsSome(t.scale_x)
                 THEN <<[fn |-> "scale", args |-> <<Unwrap(t.scale_x)>>,
                         unit |-> c.scale_resolution]>>
                 ELSE <<>>
        parts == translate \o rotate \o scale
    IN IF parts = <<>> THEN <<>> ELSE <<Attribute("transform", parts)>>

\* build_style: the declarations of style="..."
build_style(c, attrs) ==
    LET dash == IF ~IsSome(attrs.line_type) THEN <<>>
                ELSE CASE Unwrap(attrs.line_type) = "Solid" -> <<>>
                       [] Unwrap(attrs.line_type) = "Dotted" ->
                              <<[prop |-> "stroke-dasharray", value |-> <<1, 3>>]>>
                       [] Unwrap(attrs.line_type) = "Dashed" ->
                              <<[prop |-> "stroke-dasharray", value |-> <<5, 3>>]>>
                       [] Unwrap(attrs.line_type) = "DashDot" ->
                              <<[prop |-> "stroke-dasharray", value |-> <<5, 2, 1, 2>>]>>
        scale == UnwrapOr(c.config.line_width_scale, 1)
        width == IF ~IsSome(attrs.line_width) THEN <<>>
                 ELSE CASE Unwrap(attrs.line_width) = "None" ->
                              <<[prop |-> "stroke-width", value |-> <<0>>]>>
                        [] Unwrap(attrs.line_width) = "Fine" ->
                              <<[prop |-> "stroke-width", value |-> <<1 * scale>>]>>
                        [] Unwrap(attrs.line_width) = "Normal" ->
                              <<[prop |-> "stroke-width", value |-> <<2 * scale>>]>>
                        [] Unwrap(attrs.line_width) = "Thick" ->
                              <<[prop |-> "stroke-width", value |-> <<3 * scale>>]>>
        color == IF IsSome(attrs.line_color)
                 THEN <<[prop |-> "stroke",
                         value |-> color_to_hex(Unwrap(attrs.line_color))]>>
                 ELSE <<>>
        fill == IF ~IsSome(attrs.fill) THEN <<>>
                ELSE IF Unwrap(attrs.fill)
                THEN IF IsSome(attrs.fill_color)
                     THEN <<[prop |-> "fill",
                             value |-> color_to_hex(Unwrap(attrs.fill_color))]>>
                     ELSE <<>>
                ELSE <<[prop |-> "fill", value |-> "none"]>>
        styles == dash \o width \o color \o fill
    IN IF styles = <<>> THEN <<>> ELSE <<Attribute("style", styles)>>

\* a path command: its letter, its integer arguments and, for an arc, what
\* the radius (L^2/4 + e^2) / (2|e|), e = offset / k * L, is computed from
Command(cmd, args) == [cmd |-> cmd, args |-> args, radius |-> <<>>]

\* line commands to the points themselves instead of to their offsets
RECURSIVE polyline_path_absolute(_, _, _)
polyline_path_absolute(points, i, path_data) ==
    IF i > Len(points) THEN path_data
    ELSE polyline_path_absolute(points, i + 1,
             Append(path_data,
                    Command(IF i = 1 THEN "M" ELSE "l", <<points[i].x, points[i].y>>)))

\* the loop of write_polyline from point i (1-based) on
RECURSIVE polyline_path(_, _, _)
polyline_path(points, i, path_data) ==
    IF i > Len(points) THEN path_data
    ELSE IF i = 1
    THEN polyline_path(points, 2,
                       Append(path_data, Command("M", <<points[1].x, points[1].y>>)))
    ELSE polyline_path(points, i + 1,
                       Append(path_data,
                              Command("l", <<points[i].x - points[i - 1].x,
                                             points[i].y - points[i - 1].y>>)))

\* write_polyline
write_polyline(c, element, pl) ==
    IF pl.points = <<>> THEN c
    ELSE IF Len(pl.points) = 1
    THEN write_line(c, [tag |-> "circle", id |-> element.id,
                        cx |-> pl.points[1].x, cy |-> pl.points[1].y, r |-> "1.0",
                        rest |-> build_style(c, pl.attributes)])
    ELSE write_line(c, [tag |-> "path", id |-> element.id,
                        d |-> polyline_path(pl.points, 1, <<>>),
                        rest |-> build_style(c, pl.attributes)])

\* the n of compute_arc_command: 5 if curve_offset_in_bits is 1, else 4
arc_n(c) ==
    IF UnwrapOr(c.document.header.codec_params.generic_params.curve_offset_in_bits, 0) = 1
    THEN 5 ELSE 4

\* an arc that is large whenever the offset is not 0
compute_arc_command_large(c, x1, y1, x2, y2, offset) ==
    IF (x2 = x1 /\ y2 = y1) \/ offset = 0
    THEN Command("L", <<x2, y2>>)
    ELSE [cmd |-> "A", args |-> <<1, IF offset > 0 THEN 1 ELSE 0, x2, y2>>,
          radius |-> <<(x2 - x1) * (x2 - x1) + (y2 - y1) * (y2 - y1), offset,
                       2 ^ arc_n(c) - 2>>]

\* compute_arc_command.  The coordinates are integers, so the chord is
\* shorter than 1e-9 only if the two points are equal, and e = r * chord is
\* smaller than 1e-9 only if the offset is 0; r = offset / k exceeds 0.5
\* exactly when 2 * |offset| > k.
compute_arc_command(c, x1, y1, x2, y2, offset) ==
    LET dx == x2 - x1
        dy == y2 - y1
        k == 2 ^ arc_n(c) - 2
        abs == IF offset < 0 THEN -offset ELSE offset
        large_arc == IF 2 * abs > k THEN 1 ELSE 0
        sweep == IF offset > 0 THEN 1 ELSE 0
    IN IF dx = 0 /\ dy = 0 THEN Command("L", <<x2, y2>>)
       ELSE IF offset = 0 THEN Command("L", <<x2, y2>>)
       ELSE [cmd |-> "A", args |-> <<large_arc, sweep, x2, y2>>,
             radius |-> <<dx * dx + dy * dy, offset, k>>]

\* the target of point i (1-based) of a circular polyline, the running
\* position being (current_x, current_y)
circular_target(pt, i, current_x, current_y) ==
    IF pt.is_absolute \/ i - 1 < 2
    THEN <<pt.point.x, pt.point.y>>
    ELSE <<current_x + pt.point.x, current_y + pt.point.y>>

\* the loop of write_circular_polyline from point i (1-based) on
RECURSIVE circular_path(_, _, _, _, _, _)
circular_path(c, points, i, path_data, current_x, current_y) ==
    IF i > Len(points) THEN path_data
    ELSE LET target == circular_target(points[i], i, current_x, current_y)
             offset_val == points[i].curve_offset
             command ==
                 IF i = 1 THEN Command("M", target)
                 ELSE IF offset_val = 0 THEN Command("L", target)
                 ELSE compute_arc_command(c, current_x, current_y,
                                          target[1], target[2], offset_val)
         IN circular_path(c, points, i + 1, Append(path_data, command),
                          target[1], target[2])

\* write_circular_polyline
write_circular_polyline(c, element, cp) ==
    IF Len(cp.points) < 2 THEN c
    ELSE write_line(c, [tag |-> "path", id |-> element.id,
                        d |-> circular_path(c, cp.points, 1, <<>>, 0, 0),
                        rest |-> build_style(c, cp.attributes)])

\* write_simple_shape: a placeholder of fixed size
write_simple_shape(c, element, ss) ==
    IF ss.shape_type = "Rectangle"
    THEN write_line(c, [tag |-> "rect", id |-> element.id, x |-> 0, y |-> 0,
                        width |-> 10, height |-> 10,
                        rest |-> build_style(c, ss.attributes)])
    ELSE write_line(c, [tag |-> "ellipse", id |-> element.id, cx |-> 5, cy |-> 5,
                        rx |-> 5, ry |-> 5,
                        rest |-> build_style(c, ss.attributes)])

\* reuse.override_attributes.as_ref().map(|a| self.build_style(a)).unwrap_or_default()
override_style(c, reuse) ==
    IF IsSome(reuse.override_attributes)
    THEN build_style(c, Unwrap(reuse.override_attributes))
    ELSE <<>>

\* format!("{} translate({}, {})", base_transform, tx, ty): the text follows
\* the closing quote of base_transform
combined_transform(base_transform, tx, ty) ==
    IF tx # 0 \/ ty # 0
    THEN base_transform
             \o <<Text([fn |-> "translate", args |-> <<tx, ty>>,
                        unit |-> [num |-> 1, den |-> 1]])>>
    ELSE base_transform

\* a use element's line: the markup after href is the transform, a space
\* and the style
use_line(id, ref_id, transform, style) ==
    [tag |-> "use", id |-> id, href |-> "#" \o ref_id, rest |-> transform \o style]

\* the inner loop of write_array_reuse: the columns col.. of a row
RECURSIVE array_columns(_, _, _, _, _, _, _)
array_columns(c, element, ref_id, reuse, array, base_transform, cell) ==
    IF cell[2] >= array.columns THEN c
    ELSE array_columns(
             write_line(c, use_line(
                 element.id \o "_" \o ToString(cell[1]) \o "_" \o ToString(cell[2]),
                 ref_id,
                 combined_transform(base_transform,
                     cell[2] * UnwrapOr(array.width, 0),
                     cell[1] * UnwrapOr(array.height, UnwrapOr(array.width, 0))),
                 override_style(c, reuse))),
             element, ref_id, reuse, array, base_transform, <<cell[1], cell[2] + 1>>)

\* the outer loop of write_array_reuse: the rows row..
RECURSIVE array_rows(_, _, _, _, _, _, _)
array_rows(c, element, ref_id, reuse, array, base_transform, row) ==
    IF row >= array.rows THEN c
    ELSE array_rows(array_columns(c, element, ref_id, reuse, array, base_transform,
                                  <<row, 0>>),
                    element, ref_id, reuse, array, base_transform, row + 1)

\* write_array_reuse
write_array_reuse(c, element, ref_id, reuse, array, base_transform) ==
    array_rows(c, element, ref_id, reuse, array, base_transform, 0)

\* write_reuse
write_reuse(c, element, reuse) ==
    IF IsSome(reuse.array_params)
    THEN write_array_reuse(c, element, "el_" \o ToString(reuse.element_index), reuse,
                           Unwrap(reuse.array_params),
                           build_transform(c, reuse.transform))
    ELSE write_line(c, use_line(element.id, "el_" \o ToString(reuse.element_index),
                                build_transform(c, reuse.transform),
                                override_style(c, reuse)))

\* write_group_start
write_group_start(c, element, gs) ==
    [write_line(c, [tag |-> "g", id |-> element.id,
                    rest |-> IF IsSome(gs.transform)
                             THEN build_transform(c, Unwrap(gs.transform))
                             ELSE <<>>,
                    display |-> gs.display])
         EXCEPT !.indent = @ + 1, !.group_stack = Append(@, TRUE)]

\* a group end that writes its tag whether or not a group is open
write_group_end_always(c) ==
    write_line([c EXCEPT !.indent = IF @ > 0 THEN @ - 1 ELSE 0,
                         !.group_stack = IF @ = <<>> THEN @
                                         ELSE SubSeq(@, 1, Len(@) - 1)],
               [tag |-> "/g"])

\* write_group_end
write_group_end(c) ==
    IF c.group_stack # <<>>
    THEN write_line([c EXCEPT !.indent = @ - 1,
                              !.group_stack = SubSeq(@, 1, Len(@) - 1)],
                    [tag |-> "/g"])
    ELSE c

\* write_element
write_element(c, element) ==
    CASE element.data.kind = "Polyline" -> write_polyline(c, element, element.data)
      [] element.data.kind = "CircularPolyline" ->
            write_circular_polyline(c, element, element.data)
      [] element.data.kind = "SimpleShape" ->
            write_simple_shape(c, element, element.data)
      [] element.data.kind = "Reuse" -> write_reuse(c, element, element.data)
      [] element.data.kind = "GroupStart" ->
            write_group_start(c, element, element.data)
      [] element.data.kind = "GroupEnd" -> write_group_end(c)

\* write_elements: while !self.group_stack.is_empty() { pop; </g> }
RECURSIVE close_groups(_)
close_groups(c) ==
    IF c.group_stack = <<>> THEN c
    ELSE close_groups(write_line([c EXCEPT !.group_stack = SubSeq(@, 1, Len(@) - 1),
                                           !.indent = @ - 1],
                                 [tag |-> "/g"]))

\* write_footer
write_footer(c) == write_line([c EXCEPT !.indent = @ - 1], [tag |-> "/svg"])

-----------------------------------------------------------------------------
(* SvgSpec: SvgConverter::convert over a document                          *)

\* the longest run of group markers and the longest mixed document
MaxMarks == 5
MaxElements == 2

\* headers: the curve offset width, the colours, the coordinate mode
SvgHeaderOf(curve_offset_in_bits, colors, flat) ==
    [general_info |-> GeneralInfoDefault,
     color_config |->
         [scheme |-> "BlackAndWhite",
          default_line_color |-> IF colors THEN Some(BLACK) ELSE None,
          default_fill_color |-> IF colors THEN Some(Color(255, 204, 0)) ELSE None,
          background_color |-> IF colors THEN Some(WHITE) ELSE None],
     codec_params |->
         [element_masks |-> <<FALSE, TRUE, TRUE, FALSE, TRUE, TRUE, TRUE, FALSE>>,
          attribute_masks |-> AttributeMasksDefault,
          generic_params |->
              [GenericParamsDefault EXCEPT
                   !.curve_offset_in_bits = curve_offset_in_bits],
          coord_params |->
              [kind |-> IF flat THEN "Flat" ELSE "Compact",
               params |->
                   [drawing_width |-> 128, drawing_height |-> 32,
                    max_x_in_bits |-> 7, max_y_in_bits |-> 5,
                    xy_all_positive |-> TRUE, trans_xy_in_bits |-> 7,
                    num_points_in_bits |-> 3,
                    offset_x_in_bits_level1 |-> 3, offset_y_in_bits_level1 |-> 3,
                    offset_x_in_bits_level2 |-> 5, offset_y_in_bits_level2 |-> 5]]],
     animation_mode |-> None]

SvgHeaders ==
    {SvgHeaderOf(None, FALSE, TRUE), SvgHeaderOf(Some(0), FALSE, TRUE),
     SvgHeaderOf(Some(1), FALSE, TRUE), SvgHeaderOf(Some(1), TRUE, FALSE)}

SvgConfigs ==
    {ConverterConfigDefault,
     [ConverterConfigDefault EXCEPT !.pretty_print = TRUE],
     [ConverterConfigDefault EXCEPT !.pretty_print = TRUE,
                                    !.line_width_scale = Some(2)]}

\* element data as the decoder builds it
GroupStartData(transform, display) ==
    [kind |-> "GroupStart", transform |-> transform, display |-> display]
GroupEndData == [kind |-> "GroupEnd"]
PolylineData(attributes, points) ==
    [kind |-> "Polyline", attributes |-> attributes, points |-> points]
CircularPolylineData(attributes, points) ==
    [kind |-> "CircularPolyline", attributes |-> attributes, points |-> points]
ReuseData(element_index, transform, array_params) ==
    [kind |-> "Reuse", element_index |-> element_index, transform |-> transform,
     array_params |-> array_params, override_attributes |-> None]
ArrayParams(columns, rows, width, height) ==
    [columns |-> columns, rows |-> rows, width |-> width, height |-> height]

SomeAttributes ==
    [line_type |-> Some("Dashed"), line_width |-> Some("Normal"),
     line_color |-> Some(BLACK), fill |-> Some(FALSE), fill_color |-> None]
Translate(x, y) ==
    [TransformDefault EXCEPT !.translate_x = Some(x), !.translate_y = Some(y)]
Rotated ==
    [TransformDefault EXCEPT !.translate_x = Some(5), !.angle = Some(3),
                             !.scale_x = Some(2), !.cx = Some(1)]
\* a rotation about the origin with both scales, one of them 0, and a
\* transform whose only value is a scale in Y, as parse_transform builds
\* them from the bits 0 0 1 1 1 1 0 0 and 0 0 1 0 0 1 0 0
Scaled ==
    [TransformDefault EXCEPT !.angle = Some(-2), !.scale_x = Some(0),
                             !.scale_y = Some(-1)]
ScaledY == [TransformDefault EXCEPT !.scale_y = Some(3)]

\* group markers
Marks == {GroupStartData(None, TRUE), GroupEndData}

\* polylines of one, two, three and four points
Polylines ==
    {PolylineData(attributes, points) :
        attributes \in {ElementAttributesDefault, SomeAttributes},
        points \in {<<Point(83, 9)>>, <<Point(-3, 4)>>,
                    <<Point(83, 14), Point(83, 25)>>,
                    <<Point(5, 5), Point(2, 7), Point(2, 7)>>,
                    <<Point(0, 0), Point(9, -2), Point(-4, 6), Point(1, 1)>>}}

\* circular polylines: two absolute points and up to two more; the curve
\* offsets that a width of 4 or 5 bits can hold, those at the edge of a
\* large arc among them; endpoints that coincide
CurveOffsets == {0, 3, 7, -7, -8, 15, -15, -16}
CircularPolylines ==
    {CircularPolylineData(ElementAttributesDefault,
        <<CircularPoint(0, Point(1, 1), TRUE),
          CircularPoint(o1, second, TRUE)>> \o more) :
        o1 \in CurveOffsets,
        second \in {Point(4, 5), Point(1, 1)},
        more \in {<<>>,
                  <<CircularPoint(-8, Point(2, -1), FALSE)>>,
                  <<CircularPoint(7, Point(0, 0), FALSE),
                    CircularPoint(0, Point(-3, 2), FALSE)>>,
                  <<CircularPoint(-16, Point(6, 6), TRUE),
                    CircularPoint(3, Point(1, 2), FALSE)>>}}

\* reuse elements with and without an array
Arrays ==
    {ArrayParams(columns, rows, width, height) :
        columns \in 1..3, rows \in 1..2,
        width \in {None, Some(10)}, height \in {None, Some(4)}}
ReuseElements ==
    {ReuseData(0, transform, array_params) :
        transform \in {TransformDefault, Translate(41, 0), Rotated, Scaled, ScaledY},
        array_params \in {None} \cup {Some(a) : a \in Arrays}}

SimpleShapes ==
    {[kind |-> "SimpleShape", shape_type |-> shape_type,
      attributes |-> ElementAttributesDefault] :
        shape_type \in {"Rectangle", "Ellipse"}}

\* the elements of the mixed documents
MixedPool ==
    {GroupStartData(Some(Translate(2, 3)), FALSE), GroupEndData,
     PolylineData(ElementAttributesDefault, <<Point(83, 9)>>),
     PolylineData(SomeAttributes, <<Point(83, 14), Point(83, 25)>>),
     PolylineData(ElementAttributesDefault,
        <<Point(0, 0), Point(9, -2), Point(-4, 6), Point(1, 1)>>),
     CircularPolylineData(ElementAttributesDefault,
        <<CircularPoint(0, Point(3, 15), TRUE), CircularPoint(-4, Point(16, 15), TRUE),
          CircularPoint(8, Point(0, 0), FALSE)>>),
     ReuseData(0, Translate(41, 0), None),
     ReuseData(0, Translate(1, 0), Some(ArrayParams(2, 2, Some(10), Some(10)))),
     [kind |-> "SimpleShape", shape_type |-> "Rectangle",
      attributes |-> SomeAttributes]}

RECURSIVE SeqsUpTo(_, _)
SeqsUpTo(pool, n) ==
    IF n = 0 THEN {<<>>}
    ELSE SeqsUpTo(pool, n - 1)
             \cup {Append(seq, e) : seq \in SeqsUpTo(pool, n - 1), e \in pool}

\* the elements numbered el_0, el_1, ... as parse_element numbers them
RECURSIVE Numbered(_, _)
Numbered(seq, k) ==
    IF k = 0 THEN <<>>
    ELSE Append(Numbered(seq, k - 1),
                [id |-> "el_" \o ToString(k - 1), data |-> seq[k]])

ElementLists ==
    SeqsUpTo(Marks, MaxMarks) \cup SeqsUpTo(MixedPool, MaxElements)
        \cup {<<e>> : e \in Polylines \cup CircularPolylines \cup ReuseElements
                              \cup SimpleShapes}

Documents ==
    {[header |-> h, elements |-> Numbered(seq, Len(seq))] :
        h \in SvgHeaders, seq \in ElementLists}

\* SvgConverter::convert: let mut ctx = SvgContext::new(document, &self.config)
SvgInit ==
    /\ data = <<>>
    /\ overflow_checks = FALSE
    /\ bs = BitStreamNew
    /\ ret = NoCall
    /\ streak = NoStreak
    /\ parser = None
    /\ pc = "generate"
    /\ header = None
    /\ \E document \in Documents, config \in SvgConfigs :
          /\ svg = SvgContextNew(document, config)
          /\ remaining = Len(document.elements)
    /\ last = NoElement
    /\ past_end = 0
    /\ bits_read = 0
    /\ result = NoResult
    /\ first = NoResult

\* the variables a conversion leaves alone
DecodeVars ==
    <<data, overflow_checks, bs, ret, streak, parser, header, last, past_end,
      bits_read, first>>

\* generate: self.write_header()
WriteHeader ==
    /\ pc = "generate"
    /\ svg' = write_header(svg)
    /\ pc' = "write_elements"
    /\ UNCHANGED <<DecodeVars, remaining, result>>

\* write_elements: one iteration of the loop over document.elements
WriteElement ==
    /\ pc = "write_elements"
    /\ remaining > 0
    /\ svg' = write_element(svg,
                  svg.document.elements[Len(svg.document.elements) - remaining + 1])
    /\ remaining' = remaining - 1
    /\ UNCHANGED <<DecodeVars, pc, result>>

\* write_elements: the groups still open are closed
CloseGroups ==
    /\ pc = "write_elements"
    /\ remaining = 0
    /\ svg' = close_groups(svg)
    /\ pc' = "write_footer"
    /\ UNCHANGED <<DecodeVars, remaining, result>>

\* generate: self.write_footer()
WriteFooter ==
    /\ pc = "write_footer"
    /\ svg' = write_footer(svg)
    /\ pc' = "return"
    /\ UNCHANGED <<DecodeVars, remaining, result>>

\* generate: Ok(std::mem::take(&mut self.output))
GenerateReturn ==
    /\ pc = "return"
    /\ result' = [kind |-> "Ok", err |-> "Ok", info |-> 0, doc |-> Some(svg.output)]
    /\ svg' = [svg EXCEPT !.output = <<>>]
    /\ pc' = "converted"
    /\ UNCHANGED <<DecodeVars, remaining>>

SvgNext ==
    \/ WriteHeader
    \/ WriteElement
    \/ CloseGroups
    \/ WriteFooter
    \/ GenerateReturn

SvgSpec == SvgInit /\ [][SvgNext]_vars

-----------------------------------------------------------------------------
(* What the claims about the BitStream speak of                            *)

\* the position of a cursor in bits from the start of the buffer
BitPos(b) == 8 * b.byte_pos + b.bit_pos

\* bit i (0-based) of the buffer, most significant bit of each byte first
BufferBit(i) == (data[(i \div 8) + 1] \div (2 ^ (7 - (i % 8)))) % 2

\* the u32 v written with n binary digits, most significant first, is the
\* buffer's bits from..from+n-1
DigitsAre(v, n, from) ==
    /\ \A j \in 0..(n - 1) : U32Bit(v, n - 1 - j) = BufferBit(from + j)
    /\ \A k \in n..31 : U32Bit(v, k) = 0

\* u - 2^n for an n-bit u whose top bit is set (1 <= n <= 32), a negative i32
MinusPow2(u, n) ==
    IF n = 32 THEN (u.hi - 65536) * 65536 + u.lo
    ELSE IF n = 31 THEN ((u.hi * 65536 + u.lo) - MaxI32) - 1
    ELSE (u.hi * 65536 + u.lo) - 2 ^ n

\* the two's complement reading of the n-bit pattern u
SignedValue(u, n) ==
    IF U32Bit(u, n - 1) = 0 THEN u.hi * 65536 + u.lo ELSE MinusPow2(u, n)

\* C1: read_bit succeeds exactly when has_more_bits was true (byte_pos < len);
\* called with every bit consumed it returns Err(EndOfStream), no bit value,
\* and leaves the cursor where it was.
C1_ReadBitEndOfStream ==
    ret.op = "read_bit" =>
        /\ (ret.kind = "Ok") <=> has_more_bits(ret.from)
        /\ ~has_more_bits(ret.from) =>
              /\ ret.kind = "Err"
              /\ ret.err = "EndOfStream"
              /\ bs = ret.from
        /\ BitPos(ret.from) = 8 * Len(data) => ret.kind = "Err"

C1_Witness ==
    /\ ret.op = "read_bit"
    /\ Len(data) > 0
    /\ BitPos(ret.from) = 8 * Len(data)
    /\ ret.err = "EndOfStream"

\* C2: a successful read_bits(n), 1 <= n <= 32, returns the integer whose n
\* binary digits, most significant first, are the next n bits of the buffer
\* (MSB-first in each byte, across byte boundaries) and advances the cursor by
\* exactly n bits; a successful read_bit returns the next bit.
C2_ReadBitsMsbFirst ==
    /\ (ret.op = "read_bits" /\ ret.n \in 1..32 /\ ret.kind = "Ok") =>
          /\ DigitsAre(ret.u, ret.n, BitPos(ret.from))
          /\ BitPos(bs) = BitPos(ret.from) + ret.n
    /\ (ret.op = "read_bit" /\ ret.kind = "Ok") =>
          /\ ret.val = BufferBit(BitPos(ret.from))
          /\ BitPos(bs) = BitPos(ret.from) + 1

\* a read of 13 bits that starts inside a byte and crosses two byte boundaries
C2_Witness ==
    /\ ret.op = "read_bits"
    /\ ret.n = 13
    /\ ret.kind = "Ok"
    /\ ret.from.bit_pos = 4
    /\ ret.u.lo \notin {0, 8191}

\* C3 as claimed: read_signed_bits(n), 1 <= n <= 32, given n bits of value u,
\* returns u when u < 2^(n-1) and u - 2^n otherwise, with no arithmetic
\* overflow on the way.
C3_SignedAllWidths ==
    (ret.op = "read_signed_bits" /\ ret.n \in 1..32 /\ ret.kind # "Err") =>
        /\ ret.kind = "Ok"
        /\ ~ret.wrapped
        /\ ret.val = SignedValue(ret.u, ret.n)

\* the same for the widths 1..30 only
C3_SignedUpTo30 ==
    (ret.op = "read_signed_bits" /\ ret.n \in 1..30 /\ ret.kind # "Err") =>
        /\ ret.kind = "Ok"
        /\ ~ret.wrapped
        /\ ret.val = SignedValue(ret.u, ret.n)

\* C4: in every state 0 <= bit_pos < 8 and byte_pos <= len; 8 successful
\* single-bit reads in a row that started at (byte, b) end at (byte + 1, b).
C4_CursorInvariant ==
    /\ bs.bit_pos \in 0..7
    /\ bs.byte_pos \in 0..Len(data)
    /\ streak.n = 8 =>
          bs = [byte_pos |-> streak.from.byte_pos + 1,
                bit_pos |-> streak.from.bit_pos]

\* 8 single-bit reads that started in the middle of a byte
C4_Witness ==
    /\ streak.n = 8
    /\ streak.from.bit_pos = 3
    /\ bs.byte_pos = streak.from.byte_pos + 1

-----------------------------------------------------------------------------
(* What the claims about WvgParser::parse speak of                         *)

Done == pc = "done"

\* the kinds whose flag is set in the element mask, counted from 0
SetFlags ==
    {i \in 0..(Len(parser.element_masks) - 1) : parser.element_masks[i + 1]}

\* the position of the (k+1)-th set flag in mask order
KthFlag(k) ==
    CHOOSE i \in SetFlags : Cardinality({j \in SetFlags : j < i}) = k

\* the width of the type index for c set flags, as the claim tabulates it
StepWidth(c) ==
    CASE c \in {0, 1} -> 0
      [] c = 2 -> 1
      [] c \in {3, 4} -> 2
      [] c \in 5..8 -> 3
      [] c \in 9..13 -> 4

\* the element kind of a decoded element
KindOf(element) ==
    CASE element.data.kind = "Polyline" -> 1
      [] element.data.kind = "CircularPolyline" -> 2
      [] element.data.kind = "SimpleShape" -> 4
      [] element.data.kind = "Reuse" -> 5
      [] element.data.kind \in {"GroupStart", "GroupEnd"} -> 6

\* the kinds that are not decoded and the feature each is reported as
UnsupportedKinds == {0, 3, 7, 8, 9, 10, 11, 12}
FeatureOf(kind) ==
    CASE kind = 0 -> "UnsupportedFeature(LocalEnvelope)"
      [] kind = 3 -> "UnsupportedFeature(BezierPolyline)"
      [] kind = 7 -> "UnsupportedFeature(SimpleAnimation)"
      [] kind = 8 -> "UnsupportedFeature(Polygon)"
      [] kind = 9 -> "UnsupportedFeature(SpecialShape)"
      [] kind = 10 -> "UnsupportedFeature(FrameElement)"
      [] kind = 11 -> "UnsupportedFeature(TextElement)"
      [] kind = 12 -> "UnsupportedFeature(ExtendedElement)"

\* C5: when the grammar asks for a bit past the end of the buffer, in the
\* header or in an element, parse returns Err(EndOfStream) and no document;
\* a document is returned only if every bit it was decoded from was there.
C5_EndOfStreamIsAnError ==
    /\ past_end > 0 =>
          /\ Done
          /\ result.kind = "Err"
          /\ result.err = "EndOfStream"
          /\ result.doc = None
    /\ result.kind = "Ok" => past_end = 0 /\ IsSome(result.doc)
    /\ (result.kind = "Err" /\ result.err = "EndOfStream") => past_end > 0

\* the buffer ends inside the third element or later
C5_Witness ==
    /\ Done
    /\ past_end > 0
    /\ Len(parser.elements) >= 2
    /\ result.err = "EndOfStream"

\* C6 as claimed: parse always returns a document or a typed error; no input
\* makes a decoding step panic.
C6_NeverPanics == result.kind # "Panic"

\* C7: the bits read for the type index of an element number 0 for 0 or 1 set
\* flags, 1 for 2, 2 for 3 or 4, 3 for 5..8 and 4 for 9..13.
C7_TypeIndexWidth ==
    (last.called /\ last.index_read) =>
        BitPos(last.after_index) - BitPos(last.from)
            = StepWidth(Cardinality(SetFlags))

\* a 4-bit index read with 9 flags set
C7_Witness ==
    /\ last.called
    /\ last.index_read
    /\ Cardinality(SetFlags) = 9
    /\ BitPos(last.after_index) = BitPos(last.from) + 4

\* C8: type index k selects the kind at the (k+1)-th set flag, so every
\* decoded element is of a kind whose flag is set; with fewer than k+1 flags
\* set parse fails with InvalidElementType(k).
C8_IndexSelectsSetFlag ==
    /\ (last.called /\ last.index_read) =>
          IF last.elem_type_idx < Cardinality(SetFlags)
          THEN /\ last.actual_type = Some(KthFlag(last.elem_type_idx))
               /\ result.err # "InvalidElementType"
          ELSE /\ last.actual_type = None
               /\ Done
               /\ result.kind = "Err"
               /\ result.err = "InvalidElementType"
               /\ result.info = last.elem_type_idx
               /\ result.doc = None
    /\ \A i \in 1..Len(parser.elements) : KindOf(parser.elements[i]) \in SetFlags

\* elements were decoded and then an index past the last set flag was read
C8_Witness ==
    /\ Len(parser.elements) >= 2
    /\ result.err = "InvalidElementType"
    /\ result.info = 3
    /\ Cardinality(SetFlags) = 3

\* C9: an element of a kind that is not decoded makes parse return
\* UnsupportedFeature naming the kind, with the cursor just after the type
\* index and no document.
C9_UnsupportedKindFails ==
    (last.called /\ last.index_read /\ IsSome(last.actual_type)
        /\ Unwrap(last.actual_type) \in UnsupportedKinds) =>
        /\ Done
        /\ result.kind = "Err"
        /\ result.err = FeatureOf(Unwrap(last.actual_type))
        /\ bs = last.after_index
        /\ result.doc = None

\* a polygon that follows a decoded element
C9_Witness ==
    /\ last.called
    /\ last.actual_type = Some(8)
    /\ Len(parser.elements) >= 1
    /\ result.err = "UnsupportedFeature(Polygon)"

\* C10: a buffer whose first bit is 0 makes parse fail with
\* UnsupportedFeature(CharacterSizeWvg) with exactly one bit consumed.
C10_CharacterSizeFails ==
    (Done /\ Len(data) > 0 /\ data[1] < 128) =>
        /\ result.kind = "Err"
        /\ result.err = "UnsupportedFeature(CharacterSizeWvg)"
        /\ result.doc = None
        /\ BitPos(bs) = 1

\* the sample drawing with its first bit cleared
C10_Witness ==
    /\ Done
    /\ Len(data) = Len(SAMPLE_DATA)
    /\ data[1] = 0
    /\ result.err = "UnsupportedFeature(CharacterSizeWvg)"

\* the document parse returned
Document == Unwrap(result.doc)

\* C11: a header in compact coordinate mode makes parse fail with
\* UnsupportedFeature(CompactCoordinateMode) before any element is decoded;
\* every document returned has flat coordinate parameters.
C11_CompactModeFails ==
    /\ parser.is_compact =>
          /\ Done
          /\ result.kind = "Err"
          /\ result.err = "UnsupportedFeature(CompactCoordinateMode)"
          /\ result.doc = None
          /\ ~last.called
          /\ parser.elements = <<>>
    /\ result.kind = "Ok" =>
          /\ ~parser.is_compact
          /\ IsSome(parser.flat_params)
          /\ Document.header.codec_params.coord_params.kind = "Flat"

\* a compact header followed by bytes that are never read
C11_Witness ==
    /\ Done
    /\ parser.is_compact
    /\ result.err = "UnsupportedFeature(CompactCoordinateMode)"
    /\ Len(data) > bs.byte_pos + 1

\* the back-reference index of the reuse element the latest parse_element
\* call decoded, as the buffer holds it: index_in_bits + 1 bits after the
\* type index, most significant first
RawIndexBits == parser.generic_params.index_in_bits + 1
RawIndexRead ==
    /\ last.called
    /\ last.actual_type = Some(5)
    /\ BitPos(last.after_index) + RawIndexBits <= 8 * Len(data)
RECURSIVE BufferValue(_, _)
BufferValue(from, n) ==
    IF n = 0 THEN 0
    ELSE 2 * BufferValue(from, n - 1) + BufferBit(from + n - 1)
RawIndex == BufferValue(BitPos(last.after_index), RawIndexBits)
MaskedIndex == RawIndex % (2 ^ (RawIndexBits - 1))
LastElement == parser.elements[Len(parser.elements)]

\* C12: a reuse element whose raw index is out of range and whose index
\* with the most significant bit cleared is in range is decoded with the
\* masked index; a raw index in range is kept.
C12_ReuseIndexMasked ==
    (RawIndexRead /\ (RawIndex < last.len_before \/ MaskedIndex < last.len_before)) =>
        /\ result.err # "ElementIndexOutOfBounds"
        /\ last.err = "Ok" =>
              /\ Len(parser.elements) = last.len_before + 1
              /\ LastElement.data.kind = "Reuse"
              /\ LastElement.data.element_index =
                    IF RawIndex < last.len_before THEN RawIndex ELSE MaskedIndex

\* raw index 4 with two elements decoded is taken as 0
C12_Witness ==
    /\ RawIndexRead
    /\ last.err = "Ok"
    /\ last.len_before = 2
    /\ RawIndex = 4
    /\ LastElement.data.element_index = 0

\* C13 as claimed: when the raw index and the masked index are both out of
\* range parse fails with ElementIndexOutOfBounds and returns no document.
C13_OutOfBoundsFails ==
    (RawIndexRead /\ RawIndex >= last.len_before /\ MaskedIndex >= last.len_before) =>
        /\ last.err = "ElementIndexOutOfBounds"
        /\ Done
        /\ result.kind = "Err"
        /\ result.err = "ElementIndexOutOfBounds"
        /\ result.doc = None

\* C14 as claimed: in a returned document a reuse element at position p
\* refers to an element before p.
C14_BackReferencesEarlier ==
    result.kind = "Ok" =>
        \A i \in 1..Len(Document.elements) :
            Document.elements[i].data.kind = "Reuse" =>
                Document.elements[i].data.element_index < i - 1

\* the number of elements of a kind in the returned document
CountOf(kind) ==
    Cardinality({i \in 1..Len(Document.elements) :
                    Document.elements[i].data.kind = kind})

\* what the tests expect of the decoded sample drawing
SampleDecoded ==
    /\ result.kind = "Ok"
    /\ Document.header.general_info.version = 0
    /\ Document.header.color_config.scheme = "BlackAndWhite"
    /\ Document.header.codec_params.coord_params.kind = "Flat"
    /\ Document.header.codec_params.coord_params.params.drawing_width = 128
    /\ Document.header.codec_params.coord_params.params.drawing_height = 32
    /\ Len(Document.elements) = 18
    /\ CountOf("Polyline") = 9
    /\ CountOf("CircularPolyline") = 6
    /\ CountOf("Reuse") = 3

\* C15 as claimed: the sample drawing is 97 bytes long and decodes to
\* version 0, black and white, flat 128 x 32, 18 elements (9 polylines, 6
\* circular polylines, 3 reuse elements).
C15_SampleOf97Bytes ==
    (Done /\ data \in {SAMPLE_DATA, SubSeq(SAMPLE_DATA, 1, 97)}) =>
        /\ Len(data) = 97
        /\ SampleDecoded

\* C15, amended: the sample drawing, which is 103 bytes long, decodes to
\* version 0, black and white, flat 128 x 32, 18 elements (9 polylines, 6
\* circular polylines, 3 reuse elements).
C15_SampleOf103Bytes ==
    /\ Len(SAMPLE_DATA) = 103
    /\ (Done /\ data = SAMPLE_DATA) => SampleDecoded

\* parse has returned the document of the sample drawing
C15_Witness ==
    /\ Done
    /\ data = SAMPLE_DATA
    /\ Len(data) = 103
    /\ result.kind = "Ok"
    /\ Len(Document.elements) = 18

-----------------------------------------------------------------------------
(* What the claims about the renderer speak of                             *)

\* the lines written so far and, once generate has returned, the lines of
\* the string it returned
Output == IF pc = "converted" THEN Unwrap(result.doc) ELSE svg.output
Converted == pc = "converted"

\* the elements of the document and how many of them have been written
Elements == svg.document.elements
Written ==
    IF pc = "generate" THEN 0 ELSE Len(Elements) - remaining

IsOpen(line) == line.tag = "g"
IsClose(line) == line.tag = "/g"

\* <g> and </g> tags among the first n lines
Opens(n) == Cardinality({j \in 1..n : IsOpen(Output[j].line)})
Closes(n) == Cardinality({j \in 1..n : IsClose(Output[j].line)})

\* the groups open after the first k elements of the document: a group
\* start opens one, a group end closes one if one is open
RECURSIVE OpenAfter(_)
OpenAfter(k) ==
    IF k = 0 THEN 0
    ELSE IF Elements[k].data.kind = "GroupStart" THEN OpenAfter(k - 1) + 1
    ELSE IF Elements[k].data.kind = "GroupEnd" /\ OpenAfter(k - 1) > 0
    THEN OpenAfter(k - 1) - 1
    ELSE OpenAfter(k - 1)

\* the <g> line a </g> line at position j closes: the last one before j
\* with as many <g> as </g> in between
Closed(j) ==
    CHOOSE i \in 1..(j - 1) :
        /\ IsOpen(Output[i].line)
        /\ Opens(j - 1) - Opens(i) = Closes(j - 1) - Closes(i)

\* C17: whatever the sequence of group starts and group ends, closes never
\* outnumber opens in a prefix of the output, a group end closes the
\* innermost open group, the groups left open are closed before </svg>, and
\* the output returned has as many </g> as <g>.
C17_GroupsBalanced ==
    /\ \A n \in 0..Len(Output) : Closes(n) <= Opens(n)
    /\ pc = "write_elements" =>
          /\ Len(svg.group_stack) = OpenAfter(Written)
          /\ Opens(Len(Output)) - Closes(Len(Output)) = OpenAfter(Written)
    /\ \A j \in 1..Len(Output) :
          IsClose(Output[j].line) =>
              /\ \E i \in 1..(j - 1) :
                    /\ IsOpen(Output[i].line)
                    /\ Opens(j - 1) - Opens(i) = Closes(j - 1) - Closes(i)
              /\ Output[Closed(j)].indent = Output[j].indent
    /\ pc \in {"write_footer", "return", "converted"} =>
          Opens(Len(Output)) = Closes(Len(Output))
    /\ Converted =>
          /\ Output[Len(Output)].line.tag = "/svg"
          /\ Opens(Len(Output))
                 = Cardinality({k \in 1..Len(Elements) :
                                   Elements[k].data.kind = "GroupStart"})

\* a document that starts with a group end and leaves two groups open
C17_Witness ==
    /\ Converted
    /\ Len(Elements) = 5
    /\ Elements[1].data.kind = "GroupEnd"
    /\ OpenAfter(5) = 2
    /\ Opens(Len(Output)) = 3
    /\ Closes(Len(Output)) = 3
    /\ svg.config.pretty_print

\* the lines of the instances of the array reuse element k, in the order
\* written
IsInstanceOf(line, k) ==
    /\ line.tag = "use"
    /\ \E row \in 0..15, col \in 0..15 :
          line.id = Elements[k].id \o "_" \o ToString(row) \o "_" \o ToString(col)
InstanceLines(k) == {j \in 1..Len(Output) : IsInstanceOf(Output[j].line, k)}

\* the transform="..." attribute of a line's markup and the text outside
\* any attribute
TransformOf(line) ==
    IF \E t \in 1..Len(line.rest) : line.rest[t].name = "transform"
    THEN (line.rest[CHOOSE t \in 1..Len(line.rest) :
                        line.rest[t].name = "transform"]).value
    ELSE <<>>
StrayText(line) == {t \in 1..Len(line.rest) : line.rest[t].token = "text"}

TranslatePart(x, y) ==
    IF x = 0 /\ y = 0 THEN <<>>
    ELSE <<[fn |-> "translate", args |-> <<x, y>>, unit |-> [num |-> 1, den |-> 1]]>>

\* the number of instances of an array reuse and their order
ArrayInstancesInOrder(k) ==
    LET array == Unwrap(Elements[k].data.array_params)
        at == InstanceLines(k)
        start == IF at = {} THEN 0 ELSE (CHOOSE j \in at : \A i \in at : j <= i) - 1
    IN /\ Cardinality(at) = array.rows * array.columns
       /\ \A row \in 0..(array.rows - 1), col \in 0..(array.columns - 1) :
             Output[start + row * array.columns + col + 1].line.id
                 = Elements[k].id \o "_" \o ToString(row) \o "_" \o ToString(col)

\* C18 as claimed: an array reuse of r rows and c columns is written as r*c
\* <use> instances in row-major order, the instance at (row, col) having
\* the transform of the element followed by a translation by
\* (col*width, row*height), the height being the width when none was given.
C18_ArrayInstancesTranslated ==
    \A k \in 1..Written :
        (Elements[k].data.kind = "Reuse" /\ IsSome(Elements[k].data.array_params)) =>
            LET array == Unwrap(Elements[k].data.array_params)
                width == UnwrapOr(array.width, 0)
                height == UnwrapOr(array.height, width)
                own == TransformOf([rest |-> build_transform(svg, Elements[k].data.transform)])
            IN /\ ArrayInstancesInOrder(k)
               /\ \A j \in InstanceLines(k) :
                     \E row \in 0..(array.rows - 1), col \in 0..(array.columns - 1) :
                        /\ Output[j].line.id = Elements[k].id \o "_" \o ToString(row)
                                                   \o "_" \o ToString(col)
                        /\ TransformOf(Output[j].line)
                               = own \o TranslatePart(col * width, row * height)
                        /\ StrayText(Output[j].line) = {}

\* the lines written for element k: those that carry its id
LinesFor(k) ==
    {j \in 1..Len(Output) :
        /\ "id" \in DOMAIN Output[j].line
        /\ Output[j].line.id = Elements[k].id}
LineFor(k) == Output[CHOOSE j \in LinesFor(k) : TRUE].line

\* the sum of the offsets of the commands i..Len(d) of a path
RECURSIVE SumOfDeltas(_, _)
SumOfDeltas(d, i) ==
    IF i > Len(d) THEN <<0, 0>>
    ELSE <<d[i].args[1] + SumOfDeltas(d, i + 1)[1],
           d[i].args[2] + SumOfDeltas(d, i + 1)[2]>>

\* C19: a polyline of one point is written as a circle of radius 1.0 at
\* the point; a polyline of k >= 2 points is written as one path, an
\* absolute move to the first point followed by k-1 relative line commands,
\* each by the offset of a point from the one before, so that the offsets
\* sum to the last point minus the first.
C19_PolylinePath ==
    \A k \in 1..Written :
        (Elements[k].data.kind = "Polyline" /\ Elements[k].data.points # <<>>) =>
            LET points == Elements[k].data.points
                n == Len(points)
                line == LineFor(k)
            IN /\ Cardinality(LinesFor(k)) = 1
               /\ n = 1 =>
                     /\ line.tag = "circle"
                     /\ line.cx = points[1].x
                     /\ line.cy = points[1].y
                     /\ line.r = "1.0"
               /\ n >= 2 =>
                     /\ line.tag = "path"
                     /\ Len(line.d) = n
                     /\ line.d[1].cmd = "M"
                     /\ line.d[1].args = <<points[1].x, points[1].y>>
                     /\ \A i \in 2..n :
                           /\ line.d[i].cmd = "l"
                           /\ line.d[i].args = <<points[i].x - points[i - 1].x,
                                                 points[i].y - points[i - 1].y>>
                     /\ SumOfDeltas(line.d, 2) = <<points[n].x - points[1].x,
                                                   points[n].y - points[1].y>>

\* a dot and a path of four points, both converted
C19_Witness ==
    /\ Converted
    /\ Len(Elements) = 2
    /\ Elements[1].data.kind = "Polyline"
    /\ Len(Elements[1].data.points) = 1
    /\ Elements[2].data.kind = "Polyline"
    /\ Len(Elements[2].data.points) = 4
    /\ LineFor(1).tag = "circle"
    /\ LineFor(2).tag = "path"
    /\ Len(LineFor(2).d) = 4

\* where command i of a path ends: the last two numbers of the command
EndOf(d, i) == <<d[i].args[Len(d[i].args) - 1], d[i].args[Len(d[i].args)]>>

\* the width of a curve offset, as parse_curve_offset reads it
CurveOffsetWidth ==
    IF svg.document.header.codec_params.generic_params.curve_offset_in_bits = Some(1)
    THEN 5 ELSE 4
Magnitude(o) == IF o < 0 THEN -o ELSE o

\* C20: in the path of a circular polyline the segment to a point with
\* curve offset o is a line when o = 0 or when it ends where it starts, and
\* otherwise an arc whose large-arc flag is 1 exactly when
\* 2*|o| > 2^n - 2, n being the width of a curve offset (4 or 5), and whose
\* sweep flag is 1 exactly when o > 0; the first two points are taken as
\* they are and every relative point after them is placed at the running
\* position plus its offset.
C20_CircularSegments ==
    \A k \in 1..Written :
        (Elements[k].data.kind = "CircularPolyline"
            /\ Len(Elements[k].data.points) >= 2) =>
            LET points == Elements[k].data.points
                d == LineFor(k).d
            IN /\ Cardinality(LinesFor(k)) = 1
               /\ LineFor(k).tag = "path"
               /\ Len(d) = Len(points)
               /\ d[1].cmd = "M"
               /\ \A i \in 1..2 : EndOf(d, i) = <<points[i].point.x, points[i].point.y>>
               /\ \A i \in 3..Len(points) :
                     ~points[i].is_absolute =>
                         EndOf(d, i) = <<EndOf(d, i - 1)[1] + points[i].point.x,
                                         EndOf(d, i - 1)[2] + points[i].point.y>>
               /\ \A i \in 2..Len(points) :
                     LET o == points[i].curve_offset
                     IN IF o = 0 \/ EndOf(d, i) = EndOf(d, i - 1)
                        THEN d[i].cmd = "L"
                        ELSE /\ d[i].cmd = "A"
                             /\ d[i].args[1] \in {0, 1}
                             /\ d[i].args[2] \in {0, 1}
                             /\ d[i].args[1] = 1
                                    <=> 2 * Magnitude(o) > 2 ^ CurveOffsetWidth - 2
                             /\ d[i].args[2] = 1 <=> o > 0

\* a converted path with a large arc to the second point, a third point
\* that has an offset but does not move, and a relative fourth point
C20_Witness ==
    /\ Converted
    /\ Len(Elements) = 1
    /\ Elements[1].data.kind = "CircularPolyline"
    /\ Len(Elements[1].data.points) = 4
    /\ CurveOffsetWidth = 5
    /\ Elements[1].data.points[2].curve_offset = -16
    /\ LineFor(1).d[2].cmd = "A"
    /\ LineFor(1).d[2].args[1] = 1
    /\ LineFor(1).d[2].args[2] = 0
    /\ Elements[1].data.points[3].curve_offset = 7
    /\ LineFor(1).d[3].cmd = "L"
    /\ ~Elements[1].data.points[4].is_absolute
    /\ EndOf(LineFor(1).d, 4) = <<1, 7>>

\* the transform of element k, if it is written with one: that of a reuse
\* without an array or of a group start that has a transform
HasTransform(k) ==
    \/ Elements[k].data.kind = "Reuse" /\ ~IsSome(Elements[k].data.array_params)
    \/ Elements[k].data.kind = "GroupStart" /\ IsSome(Elements[k].data.transform)
GivenTransform(k) ==
    IF Elements[k].data.kind = "Reuse" THEN Elements[k].data.transform
    ELSE Unwrap(Elements[k].data.transform)

\* the positions of the terms of a name in the parts of a transform
TermsOf(parts, fn) == {i \in 1..Len(parts) : parts[i].fn = fn}

\* C21 as claimed: a transform is written as its translate, rotate and
\* scale terms in that order; a present angle gives a rotate term, about
\* (cx, cy) when there is a center and about the origin otherwise; every
\* present scale value, in X or in Y, gives a factor 1 + v * scale_resolution
\* in the scale term, so that no present scale is dropped.
C21_TransformTerms ==
    \A k \in 1..Written :
        HasTransform(k) =>
            LET t == GivenTransform(k)
                parts == TransformOf(LineFor(k))
                cx == UnwrapOr(t.cx, 0)
                cy == UnwrapOr(t.cy, 0)
            IN /\ \A i, j \in 1..Len(parts) :
                     i < j =>
                        /\ parts[i].fn \in {"translate", "rotate"}
                        /\ parts[j].fn \in {"rotate", "scale"}
                        /\ parts[i].fn # parts[j].fn
               /\ IsSome(t.angle) =>
                     \E i \in TermsOf(parts, "rotate") :
                        /\ parts[i].unit = svg.angle_resolution
                        /\ parts[i].args = IF cx # 0 \/ cy # 0
                                           THEN <<Unwrap(t.angle), cx, cy>>
                                           ELSE <<Unwrap(t.angle)>>
               /\ IsSome(t.scale_x) =>
                     \E i \in TermsOf(parts, "scale") :
                        /\ parts[i].unit = svg.scale_resolution
                        /\ parts[i].args[1] = Unwrap(t.scale_x)
               /\ IsSome(t.scale_y) =>
                     \E i \in TermsOf(parts, "scale") :
                        /\ parts[i].unit = svg.scale_resolution
                        /\ parts[i].args[Len(parts[i].args)] = Unwrap(t.scale_y)

\* C22: a decode is a single pass: from one step to the next the cursor
\* position 8 * byte_pos + bit_pos never decreases, it has moved on by one
\* for every read_bit call that returned a bit, and it never exceeds
\* 8 * len.
C22_SinglePass ==
    /\ [](BitPos(bs) <= 8 * Len(data))
    /\ [](BitPos(bs) = bits_read)
    /\ [][/\ BitPos(bs') >= BitPos(bs)
          /\ BitPos(bs') - BitPos(bs) = bits_read' - bits_read]_vars

\* a decode that returned a document after reading into the fourth byte
C22_Witness ==
    /\ Done
    /\ result.kind = "Ok"
    /\ Len(Document.elements) > 0
    /\ bits_read > 24
    /\ bs.bit_pos # 0

-----------------------------------------------------------------------------
(* What the claims about the elements speak of                             *)

\* the latest parse_element call decoded an element of the kind
Decoded(kind) ==
    /\ last.called
    /\ last.err = "Ok"
    /\ LastElement.data.kind = kind

\* where the body of that element starts: the bit after the type index
BodyStart == BitPos(last.after_index)

\* the n bits from `from` on as a two's complement number
BufferSigned(from, n) ==
    IF n = 0 THEN 0
    ELSE IF BufferBit(from) = 1 THEN BufferValue(from, n) - 2 ^ n
    ELSE BufferValue(from, n)

\* the attribute masks of the header and whether one of them is set
Masks == parser.attribute_masks
AnyMask == Masks.line_type \/ Masks.line_width \/ Masks.line_color \/ Masks.fill

\* the element header as the format lays it out from BodyStart on: two
\* offset-use bits, a has-attributes bit if a mask is set and, if that is 1,
\* 2 bits of line type, 2 bits of line width, 1 bit of line colour unless
\* the width is 0 (none), 1 bit of fill and 1 bit of fill colour if filled,
\* each only if its mask is set
HasAttributes == AnyMask /\ BufferBit(BodyStart + 2) = 1
WidthStart == BodyStart + 3 + (IF Masks.line_type THEN 2 ELSE 0)
ColorStart == WidthStart + (IF Masks.line_width THEN 2 ELSE 0)
FillStart ==
    ColorStart
        + (IF Masks.line_color /\ ~(Masks.line_width /\ BufferValue(WidthStart, 2) = 0)
           THEN 1 ELSE 0)
HeaderEnd ==
    IF ~AnyMask THEN BodyStart + 2
    ELSE IF ~HasAttributes THEN BodyStart + 3
    ELSE FillStart
             + (IF ~Masks.fill THEN 0 ELSE IF BufferBit(FillStart) = 1 THEN 2 ELSE 1)

HasHeader ==
    \/ Decoded("Polyline")
    \/ Decoded("CircularPolyline")
    \/ Decoded("SimpleShape")

\* C27: an element header is the two offset-use bits alone, with every
\* attribute absent, when no attribute mask is set; otherwise a
\* has-attributes bit follows and, when it is 1, an attribute can be present
\* only if its mask is set; the offset-use flags are those of the element's
\* own header.
C27_ElementHeader ==
    HasHeader =>
        LET attributes == LastElement.data.attributes
        IN /\ parser.offset_x_use = (BufferBit(BodyStart) = 1)
           /\ parser.offset_y_use = (BufferBit(BodyStart + 1) = 1)
           /\ ~HasAttributes => attributes = ElementAttributesDefault
           /\ IsSome(attributes.line_type) => Masks.line_type
           /\ IsSome(attributes.line_width) => Masks.line_width
           /\ IsSome(attributes.line_color) => Masks.line_color
           /\ IsSome(attributes.fill) => Masks.fill
           /\ IsSome(attributes.fill_color) => Masks.fill
           /\ HasAttributes =>
                 /\ Masks.line_type => IsSome(attributes.line_type)
                 /\ Masks.line_width => IsSome(attributes.line_width)
                 /\ Masks.fill => IsSome(attributes.fill)
           \* a simple shape is its header and one bit
           /\ Decoded("SimpleShape") =>
                 /\ BitPos(bs) = HeaderEnd + 1
                 /\ ~AnyMask => BitPos(bs) = BodyStart + 3

\* the second of two simple shapes, decoded with a line type and a fill
\* under the masks of line type and fill alone
C27_Witness ==
    /\ Decoded("SimpleShape")
    /\ last.len_before = 1
    /\ Masks = [line_type |-> TRUE, line_width |-> FALSE, line_color |-> FALSE,
                fill |-> TRUE]
    /\ HasAttributes
    /\ IsSome(LastElement.data.attributes.line_type)
    /\ LastElement.data.attributes.fill = Some(TRUE)
    /\ ~IsSome(LastElement.data.attributes.line_width)

\* the coordinate parameters and the widths they give: of a point, and of
\* an offset under the offset-use bits of the element's header
Params == Unwrap(parser.flat_params)
XOffsetBits ==
    IF BufferBit(BodyStart) = 1 THEN Params.offset_x_in_bits_level2
    ELSE Params.offset_x_in_bits_level1
YOffsetBits ==
    IF BufferBit(BodyStart + 1) = 1 THEN Params.offset_y_in_bits_level2
    ELSE Params.offset_y_in_bits_level1
PointBits == Params.max_x_in_bits + Params.max_y_in_bits

\* the absolute point and the relative offset the buffer holds at `from`
PointAt(from) ==
    IF Params.xy_all_positive
    THEN Point(BufferValue(from, Params.max_x_in_bits),
               BufferValue(from + Params.max_x_in_bits, Params.max_y_in_bits))
    ELSE Point(BufferSigned(from, Params.max_x_in_bits),
               BufferSigned(from + Params.max_x_in_bits, Params.max_y_in_bits))
OffsetAt(from) ==
    <<BufferSigned(from, XOffsetBits), BufferSigned(from + XOffsetBits, YOffsetBits)>>

\* a polyline after its header: the point count, the first point, and the
\* offsets one after the other
PolylineCount == BufferValue(HeaderEnd, Params.num_points_in_bits)
PolylineFirst == HeaderEnd + Params.num_points_in_bits
PolylineOffset(i) == PolylineFirst + PointBits + (i - 1) * (XOffsetBits + YOffsetBits)

\* C24: a polyline with point count N has N + 1 points; the first is the
\* absolute point of the buffer, unsigned when all coordinates are positive
\* and signed otherwise; each later point is the one before plus the next
\* signed offset, read at the level-2 width of an axis if the offset-use bit
\* of that axis is set and at its level-1 width otherwise.
C24_PolylinePoints ==
    Decoded("Polyline") =>
        LET points == LastElement.data.points
        IN /\ Len(points) = PolylineCount + 1
           /\ points[1] = PointAt(PolylineFirst)
           /\ \A i \in 1..PolylineCount :
                 points[i + 1] =
                     Point(points[i].x + OffsetAt(PolylineOffset(i))[1],
                           points[i].y + OffsetAt(PolylineOffset(i))[2])
           /\ BitPos(bs) = PolylineOffset(PolylineCount + 1)

\* three signed points, the offsets in X at level 2 and in Y at level 1
C24_Witness ==
    /\ Decoded("Polyline")
    /\ ~Params.xy_all_positive
    /\ PolylineCount = 2
    /\ Len(LastElement.data.points) = 3
    /\ BufferBit(BodyStart) = 1
    /\ BufferBit(BodyStart + 1) = 0
    /\ Params.offset_x_in_bits_level2 # Params.offset_x_in_bits_level1
    /\ LastElement.data.points[1].x < 0
    /\ OffsetAt(PolylineOffset(2))[1] < 0

\* a circular polyline after its header: the curve hint, the point count,
\* the first point, and then curve offsets each followed by a point or an
\* offset.  A curve offset at `from` is CurveBits wide, after a presence bit
\* if the hint is set; a presence bit of 0 stands for the offset 0.
CurveBits == IF parser.generic_params.curve_offset_in_bits = Some(1) THEN 5 ELSE 4
CurveHint == BufferBit(HeaderEnd) = 1
CircularCount == BufferValue(HeaderEnd + 1, Params.num_points_in_bits)
CircularFirst == HeaderEnd + 1 + Params.num_points_in_bits
CurveLen(from) ==
    IF ~CurveHint THEN CurveBits
    ELSE IF BufferBit(from) = 1 THEN 1 + CurveBits
    ELSE 1
CurveAt(from) ==
    IF ~CurveHint THEN BufferSigned(from, CurveBits)
    ELSE IF BufferBit(from) = 1 THEN BufferSigned(from + 1, CurveBits)
    ELSE 0
CircularSecond == CircularFirst + PointBits

\* where the curve offset of the i-th relative point starts (i >= 1)
RECURSIVE CircularRelative(_)
CircularRelative(i) ==
    IF i = 1 THEN CircularSecond + CurveLen(CircularSecond) + PointBits
    ELSE CircularRelative(i - 1) + CurveLen(CircularRelative(i - 1))
             + XOffsetBits + YOffsetBits

\* the circular-polyline and polygon flags of the element mask
MaskFlag(i) == i < Len(parser.element_masks) /\ parser.element_masks[i + 1]

\* C23: the curve offsets of a circular polyline are signed values of 5
\* bits if the curve-offset-width bit of the header was 1 and of 4 bits
\* otherwise; under a curve hint each is preceded by a presence bit, and a
\* presence bit of 0 gives the offset 0 and no offset bits are consumed;
\* the width bit is read only if the circular-polyline or the polygon flag
\* is set, and it has been read whenever a circular polyline is decoded.
C23_CurveOffsets ==
    /\ IsSome(parser.generic_params.curve_offset_in_bits) =>
          MaskFlag(2) \/ MaskFlag(8)
    /\ Decoded("CircularPolyline") =>
          LET points == LastElement.data.points
          IN /\ IsSome(parser.generic_params.curve_offset_in_bits)
             /\ points[2].curve_offset = CurveAt(CircularSecond)
             /\ \A i \in 1..CircularCount :
                   points[i + 2].curve_offset = CurveAt(CircularRelative(i))
             /\ BitPos(bs) = CircularRelative(CircularCount + 1)

\* a circular polyline with a curve hint and offsets of 5 bits, one of
\* them absent and one of them negative
C23_Witness ==
    /\ Decoded("CircularPolyline")
    /\ CurveBits = 5
    /\ CurveHint
    /\ CircularCount = 2
    /\ \E i, j \in {CircularSecond, CircularRelative(1), CircularRelative(2)} :
          /\ BufferBit(i) = 0
          /\ BufferBit(j) = 1
          /\ CurveAt(j) < 0

\* C25: a circular polyline with point count N has N + 2 points; the first
\* has curve offset 0 and is absolute, the second is absolute, and every
\* later point is relative and holds the offset (dx, dy) as decoded, not a
\* position.
C25_CircularPoints ==
    Decoded("CircularPolyline") =>
        LET points == LastElement.data.points
        IN /\ Len(points) = CircularCount + 2
           /\ points[1] = CircularPoint(0, PointAt(CircularFirst), TRUE)
           /\ points[2].is_absolute
           /\ points[2].point = PointAt(CircularSecond + CurveLen(CircularSecond))
           /\ \A i \in 1..CircularCount :
                 LET offset == OffsetAt(CircularRelative(i)
                                            + CurveLen(CircularRelative(i)))
                 IN /\ ~points[i + 2].is_absolute
                    /\ points[i + 2].point = Point(offset[1], offset[2])

\* four points, the last two relative and not at the origin
C25_Witness ==
    /\ Decoded("CircularPolyline")
    /\ CircularCount = 2
    /\ Len(LastElement.data.points) = 4
    /\ LastElement.data.points[2].point # Point(0, 0)
    /\ LastElement.data.points[3].point.x # 0
    /\ LastElement.data.points[4].point.y # 0
    /\ ~LastElement.data.points[4].is_absolute

\* the extended information as the format lays it out: after the type bit
\* and the 4 bits of the version a flag, and if it is 1 the text code mode,
\* the author, the title and the timestamp.  A string is one bit if absent
\* and else 1 + 8 + length * width bits; a timestamp is 1 or 1 + 39 bits.
Extended == BufferBit(5) = 1
CharBits == IF BufferBit(6) = 1 THEN 16 ELSE 7
StringPresent(from) == BufferBit(from) = 1
StringLen(from) ==
    IF StringPresent(from) THEN 1 + 8 + BufferValue(from + 1, 8) * CharBits ELSE 1
AuthorStart == 1 + 4 + 1 + 1
TitleStart == AuthorStart + StringLen(AuthorStart)
StampStart == TitleStart + StringLen(TitleStart)
StampLen == IF BufferBit(StampStart) = 1 THEN 40 ELSE 1
InfoDecoded == pc = "color_configuration"

C28_ElementIds ==
    /\ [](/\ \A i \in 1..Len(parser.elements) :
                parser.elements[i].id = "el_" \o ToString(i - 1)
          /\ \A i, j \in 1..Len(parser.elements) :
                parser.elements[i].id = parser.elements[j].id => i = j
          /\ result.kind = "Ok" => Document.elements = parser.elements)
    /\ [][/\ Len(parser.elements') >= Len(parser.elements)
          /\ SubSeq(parser.elements', 1, Len(parser.elements)) = parser.elements]_vars

\* the sample drawing decoded: 18 elements, the last of them el_17
C28_Witness ==
    /\ Done
    /\ result.kind = "Ok"
    /\ Len(Document.elements) = 18
    /\ Document.elements[18].id = "el_17"
    /\ Document.elements[11].id = "el_10"

\* C29: while the elements are written the indentation depth is 1 plus the
\* number of open groups; a group end met with no group open changes
\* neither the depth nor the stack nor the output; the depth is never
\* negative and it is 0 when </svg> is written.
C29_Indentation ==
    /\ [](/\ svg.indent >= 0
          /\ pc = "write_elements" =>
                /\ svg.indent = 1 + Len(svg.group_stack)
                /\ svg.indent = 1 + OpenAfter(Written)
          /\ pc = "return" =>
                /\ svg.indent = 0
                /\ Output[Len(Output)] =
                       [indent |-> 0, newline |-> svg.config.pretty_print,
                        line |-> [tag |-> "/svg"]])
    /\ [][(/\ pc = "write_elements"
           /\ remaining > 0
           /\ Elements[Written + 1].data.kind = "GroupEnd"
           /\ OpenAfter(Written) = 0)
              => svg' = svg]_vars

\* a group closed by its end, then an end with no group open, then two
\* groups left open, all written and the footer after them
C29_Witness ==
    /\ pc = "return"
    /\ svg.config.pretty_print
    /\ Len(Elements) = 5
    /\ Elements[1].data.kind = "GroupStart"
    /\ Elements[2].data.kind = "GroupEnd"
    /\ Elements[3].data.kind = "GroupEnd"
    /\ OpenAfter(5) = 2
    /\ svg.indent = 0

\* the element count as the buffer holds it at `from`: a gate bit, then 7
\* bits if it is 0 and 15 bits if it is 1
CountAt(from) ==
    IF BufferBit(from) = 0 THEN BufferValue(from + 1, 7) ELSE BufferValue(from + 1, 15)

\* C30: a document is returned with exactly as many elements, group
\* markers included, as the element count says, the count being 7 bits wide
\* after a gate bit of 0 and 15 bits wide after a gate bit of 1; the bits
\* after the last element are not read and do not matter.
C30_ElementCount ==
    /\ [][(pc = "elements" /\ pc' = "element") =>
              remaining' + Len(parser.elements') = CountAt(BitPos(bs))]_vars
    /\ [][(pc = "element" /\ pc' = "element") =>
              remaining' + Len(parser.elements') = remaining + Len(parser.elements)]_vars
    /\ [][(pc = "element" /\ pc' = "done" /\ result'.kind = "Ok") =>
              /\ remaining = 0
              /\ bs' = bs
              /\ Unwrap(result'.doc).elements = parser.elements]_vars
    /\ [](pc = "element" /\ remaining = 0 => ENABLED ParseReturn)

\* 130 elements counted by a 15-bit field, and two bytes that are not read
C30_Witness ==
    /\ Done
    /\ result.kind = "Ok"
    /\ Len(Document.elements) = 130
    /\ Document.elements[130].data.kind = "GroupEnd"
    /\ 8 * Len(data) - BitPos(bs) >= 16


=============================================================================
